---- MODULE Spec2Model ----
(***************************************************************************)
(* Model of github.com/fzipp/canvas: the drawing Context with its byte     *)
(* buffer, the resource handles (ImageData, Gradient, Pattern), Flush, and *)
(* the per-connection session of drawHandler.ServeHTTP with readMessages,  *)
(* writeMessages and the run function.                                     *)
(***************************************************************************)
EXTENDS Integers, Sequences, FiniteSets, TLC

VARIABLES
    buf,            \* ctx.buf.bytes
    imageDataIDs,   \* ctx.imageDataIDs.next
    gradientIDs,    \* ctx.gradientIDs.next
    patternIDs,     \* ctx.patternIDs.next
    imgs,           \* the ImageData handles created so far
    grads,          \* the Gradient handles created so far
    pats,           \* the Pattern handles created so far
    fault,          \* panic value raised by the last call, NoFault if none
    flushed,        \* messages handed to the draws channel, in order
    pending,        \* history: encodings of the commands appended since the last Flush
    flushedCmds,    \* history: per flushed message, the command encodings issued for it
    releaseCalls,   \* history: number of Release calls made on each handle
    last,           \* history: the last call made on the Context or a handle
    calls,          \* history: number of calls made so far
    hPc,            \* position of drawHandler.ServeHTTP
    rPc,            \* position of readMessages
    wPc,            \* position of writeMessages
    runPc,          \* position of the run function
    wg,             \* the WaitGroup counter
    conn,           \* state of the WebSocket connection
    evMsg,          \* event held by readMessages for the handoff
    wMsg,           \* message held by writeMessages
    drawsClosed,    \* close(draws) has run
    eventsClosed,   \* close(events) has run
    crashed,        \* panic value that ended the process, NoFault if none
    reads,          \* history: number of messages read from the connection
    decoded,        \* history: events decoded by readMessages, in order
    decodeErr,      \* err of the last decodeEvent call in readMessages
    decodeFaults,   \* history: number of decodeEvent calls in readMessages that returned an error
    received,       \* history: events received by the run function, in order
    written,        \* history: messages passed to conn.WriteMessage, in order
    messageType,    \* messageType of the last message that conn.ReadMessage returned
    flushReturns,   \* history: number of Flush calls that returned
    results,        \* history: decodeEvent calls made directly, argument and return values
    rbuf,           \* a buffer that read primitives are called on
    readLog,        \* history: the reads made on rbuf, in order
    gNext,          \* g.next of one idGenerator used by several goroutines
    nextMu,         \* g.nextMu: the goroutine holding it, 0 if unlocked
    gPc,            \* position of each goroutine inside the generator
    gId,            \* local variable id of each goroutine
    gTmp,           \* value of g.next loaded by each goroutine for g.next++
    issued,         \* history: the IDs returned, in order of return
    opts,           \* o.EnabledEvents of one Options value
    maskResult,     \* history: the last call of o.eventMask(), argument and result
    lookups,        \* history: opcode constants used, with the byte each stands for
    trips,          \* history: values written to a fresh buffer and read back
    created,        \* history: CreateImageData calls on a fresh Context, image and command
    cbuf,           \* buf.bytes of each of several Contexts
    cnext,          \* the three idGenerators of each of several Contexts
    handles,        \* the handles created on the several Contexts
    lastOwn,        \* history: the last call on one of the several Contexts
    resetDef,       \* which of the two definitions of buffer.reset is compiled in
    heap,           \* the backing arrays allocated so far
    bytes,          \* ctx.buf.bytes as a slice header: backing array and length
    message,        \* the slice header held by writeMessages
    fPc,            \* position of the run function around Flush
    mPc,            \* position of writeMessages
    handed,         \* history: contents of each message when Flush handed it over
    wrote           \* history: contents conn.WriteMessage found in each message

ctxVars == <<imageDataIDs, gradientIDs, patternIDs, imgs, grads, pats>>
encHist == <<pending, flushedCmds, releaseCalls, last, calls, fault>>
serveVars == <<hPc, rPc, wPc, runPc, wg, conn, evMsg, wMsg, drawsClosed,
               eventsClosed, crashed, reads, decoded, decodeErr, decodeFaults, received,
               written, messageType>>
decodeVars == <<results>>
bufVars == <<rbuf, readLog>>
genVars == <<gNext, nextMu, gPc, gId, gTmp, issued>>
maskVars == <<opts, maskResult>>
ownerVars == <<cbuf, cnext, handles, lastOwn>>
sliceVars == <<resetDef, heap, bytes, message, fPc, mPc, handed, wrote>>
pureVars == <<maskVars, lookups, trips, created, ownerVars, sliceVars>>
unitVars == <<decodeVars, bufVars, genVars, pureVars>>
sessionVars == <<buf, ctxVars, flushed, encHist, serveVars, flushReturns>>
vars == <<sessionVars, unitVars>>

----------------------------------------------------------------------------
(* Bounds of the model *)

MaxCalls == 4       \* calls made on one Context in the encoder specification
MaxHandles == 3     \* handles created per resource kind
MaxReads == 3       \* messages read from the connection in one session
MaxFlushes == 3     \* Flush calls started by the run function in one session
MaxDraws == 1       \* drawing commands buffered by the run function between flushes

Floats == {10}      \* float64 arguments (integral values)

NoFault == "none"

----------------------------------------------------------------------------
(* Opcodes (enums.go) *)

bArc == 1
bArcTo == 2
bBeginPath == 3
bBezierCurveTo == 4
bClearRect == 5
bClip == 6
bClosePath == 7
bCreateImageData == 8
bCreateLinearGradient == 9
bCreatePattern == 10
bCreateRadialGradient == 11
bDrawImage == 13
bEllipse == 14
bFill == 15
bFillRect == 16
bFillStyle == 17
bFillText == 18
bFont == 19
bGradientAddColorStop == 20
bGradientAddColorStopString == 21
bFillStyleGradient == 22
bGlobalAlpha == 23
bGlobalCompositeOperation == 24
bImageSmoothingEnabled == 25
bStrokeStyleGradient == 26
bReleasePattern == 27
bLineCap == 28
bLineDashOffset == 29
bLineJoin == 30
bLineTo == 31
bLineWidth == 32
bReleaseGradient == 33
bMiterLimit == 34
bMoveTo == 35
bPutImageData == 36
bQuadraticCurveTo == 37
bRect == 38
bRestore == 39
bRotate == 40
bSave == 41
bScale == 42
bSetLineDash == 43
bSetTransform == 44
bShadowBlur == 45
bShadowColor == 46
bShadowOffsetX == 47
bShadowOffsetY == 48
bStroke == 49
bStrokeRect == 50
bStrokeStyle == 51
bStrokeText == 52
bTextAlign == 53
bTextBaseline == 54
bTransform == 55
bTranslate == 56
bFillTextMaxWidth == 57
bStrokeTextMaxWidth == 58
bFillStyleString == 59
bStrokeStyleString == 60
bShadowColorString == 61
bPutImageDataDirty == 62
bDrawImageScaled == 63
bDrawImageSubRectangle == 64
bReleaseImageData == 65
bFillStylePattern == 66
bStrokeStylePattern == 67
bGetImageData == 68

PatternRepetitions == 0 .. 3

----------------------------------------------------------------------------
(* buffer: write side (buffer.go) *)

RECURSIVE Pow2(_)
Pow2(n) == IF n = 0 THEN 1 ELSE 2 * Pow2(n - 1)

RECURSIVE Log2(_)
\* floor(log2(n)) for n >= 1
Log2(n) == IF n < 2 THEN 0 ELSE 1 + Log2(n \div 2)

\* byteOrder.PutUint32: big endian
PutUint32(i) ==
    << (i \div 16777216) % 256, (i \div 65536) % 256, (i \div 256) % 256, i % 256 >>

\* byteOrder.PutUint64(math.Float64bits(f)) for an integral f, 0 <= f < 2^20:
\* sign 0, biased exponent 1023 + e, fraction (f - 2^e) * 2^(52 - e); the low
\* 32 bits of the pattern are zero for these values.
Float64bits(f) ==
    IF f = 0 THEN <<0, 0, 0, 0, 0, 0, 0, 0>>
    ELSE LET e == Log2(f)
             hi == (1023 + e) * 1048576 + (f - Pow2(e)) * Pow2(20 - e)
         IN  PutUint32(hi) \o <<0, 0, 0, 0>>

addByte(b, x) == Append(b, x)

addFloat64(b, f) == b \o Float64bits(f)

\* byteOrder.PutUint32 of a little-endian byteOrder
addUint32Little(b, i) ==
    b \o << i % 256, (i \div 256) % 256, (i \div 65536) % 256, (i \div 16777216) % 256 >>

addUint32(b, i) == b \o PutUint32(i)

addBytes(b, p) == b \o p

\* s is the sequence of the bytes of the string
addString(b, s) == addUint32(b, Len(s)) \o s

\* color.RGBAModel.Convert: an RGBA colour is kept, a Gray colour is expanded
RGBAModelConvert(c) ==
    IF c.model = "RGBA" THEN c
    ELSE [model |-> "RGBA", R |-> c.Y, G |-> c.Y, B |-> c.Y, A |-> 255]

addColor(b, c) ==
    LET clr == RGBAModelConvert(c)
    IN  addByte(addByte(addByte(addByte(b, clr.R), clr.G), clr.B), clr.A)

resetKeepsBytes(b) == b

\* buffer.reset: a fresh, empty byte slice
reset(b) == <<>>

RECURSIVE addFloats(_, _)
\* consecutive addFloat64 calls
addFloats(b, fs) ==
    IF fs = <<>> THEN b ELSE addFloats(addFloat64(b, Head(fs)), Tail(fs))

RECURSIVE Flatten(_)
Flatten(ss) == IF ss = <<>> THEN <<>> ELSE Head(ss) \o Flatten(Tail(ss))

RECURSIVE CountCmd(_, _)
CountCmd(c, ss) ==
    IF ss = <<>> THEN 0
    ELSE (IF Head(ss) = c THEN 1 ELSE 0) + CountCmd(c, Tail(ss))

----------------------------------------------------------------------------
(* Resource handles *)

ImageDataFault == "ImageData: use after release"
GradientFault == "Gradient: use after release"
PatternFault == "Pattern: use after release"

generateIDStuck(next) == [id |-> next, next |-> next]

\* idGenerator.generateID: the ID handed out and the counter afterwards
generateID(next) == [id |-> next, next |-> next + 1]

\* ImageData.checkUseAfterRelease: the panic value, NoFault when it returns
ImageData_checkUseAfterRelease(m) ==
    IF m.released THEN ImageDataFault ELSE NoFault

\* Gradient.checkUseAfterRelease
Gradient_checkUseAfterRelease(g) ==
    IF g.released THEN GradientFault ELSE NoFault

\* Pattern.checkUseAfterRelease
Pattern_checkUseAfterRelease(p) ==
    IF p.released THEN PatternFault ELSE NoFault

ImageData_ReleaseAlways(b, m) ==
    [buf |-> addUint32(addByte(b, bReleaseImageData), m.id),
     h |-> [m EXCEPT !.released = TRUE]]

\* ImageData.Release: the buffer and the handle afterwards
ImageData_Release(b, m) ==
    IF m.released THEN [buf |-> b, h |-> m]
    ELSE [buf |-> addUint32(addByte(b, bReleaseImageData), m.id),
          h |-> [m EXCEPT !.released = TRUE]]

\* Gradient.Release
Gradient_Release(b, g) ==
    IF g.released THEN [buf |-> b, h |-> g]
    ELSE [buf |-> addUint32(addByte(b, bReleaseGradient), g.id),
          h |-> [g EXCEPT !.released = TRUE]]

\* Pattern.Release: appends the command, records nothing in the handle
Pattern_Release(b, p) ==
    [buf |-> addUint32(addByte(b, bReleasePattern), p.id), h |-> p]

\* An image is [format, min, w, h, Stride, Pix]: its pixel format, the Min
\* point and the size of its bounds, and the Stride and Pix of image.RGBA
\* and image.Gray.  A rectangle is [min, w, h].
Bounds(img) == [min |-> img.min, w |-> img.w, h |-> img.h]

\* image.Point.In
InRect(x, y, r) ==
    /\ r.min[1] <= x /\ x < r.min[1] + r.w
    /\ r.min[2] <= y /\ y < r.min[2] + r.h

BytesPerPixel(format) == IF format = "RGBA" THEN 4 ELSE 1

\* (*image.RGBA).PixOffset, (*image.Gray).PixOffset
PixOffset(img, x, y) ==
    (y - img.min[2]) * img.Stride + (x - img.min[1]) * BytesPerPixel(img.format)

\* the colour stored at offset o of Pix
ColorAt(img, o) ==
    IF img.format = "RGBA"
    THEN [model |-> "RGBA", R |-> img.Pix[o + 1], G |-> img.Pix[o + 2],
          B |-> img.Pix[o + 3], A |-> img.Pix[o + 4]]
    ELSE [model |-> "Gray", Y |-> img.Pix[o + 1]]

\* (*image.RGBA).At, (*image.Gray).At: the zero colour outside the bounds
At(img, x, y) ==
    IF InRect(x, y, Bounds(img)) THEN ColorAt(img, PixOffset(img, x, y))
    ELSE IF img.format = "RGBA" THEN [model |-> "RGBA", R |-> 0, G |-> 0, B |-> 0, A |-> 0]
    ELSE [model |-> "Gray", Y |-> 0]

\* (*image.RGBA).SubImage, (*image.Gray).SubImage for a rectangle inside
\* the bounds: shares Pix from the rectangle's first pixel on, keeps Stride
SubImage(img, r) ==
    [format |-> img.format, min |-> r.min, w |-> r.w, h |-> r.h,
     Stride |-> img.Stride,
     Pix |-> SubSeq(img.Pix, PixOffset(img, r.min[1], r.min[2]) + 1, Len(img.Pix))]

\* image.NewRGBA
NewRGBA(r) ==
    [format |-> "RGBA", min |-> r.min, w |-> r.w, h |-> r.h, Stride |-> 4 * r.w,
     Pix |-> [i \in 1 .. 4 * r.w * r.h |-> 0]]

\* channel ch (0..3) of an RGBA colour
Channel(c, ch) ==
    CASE ch = 0 -> c.R [] ch = 1 -> c.G [] ch = 2 -> c.B [] ch = 3 -> c.A

\* draw.Draw with draw.Src, channel ch of the pixel (x, y) of dst: the
\* converted source pixel at sp + (x, y) - r.Min where (x, y) lies in r, in
\* the bounds of dst and in the bounds of src moved by r.Min - sp (the
\* clipping of draw.Draw); the old value elsewhere
drawPixel(dst, r, src, sp, x, y, ch) ==
    IF /\ InRect(x, y, r)
       /\ InRect(x, y, Bounds(dst))
       /\ InRect(sp[1] + x - r.min[1], sp[2] + y - r.min[2], Bounds(src))
    THEN Channel(RGBAModelConvert(At(src, sp[1] + x - r.min[1], sp[2] + y - r.min[2])),
                 ch)
    ELSE dst.Pix[PixOffset(dst, x, y) + ch + 1]

\* draw.Draw(dst, r, src, sp, draw.Src) on a dst made by NewRGBA
draw_Draw(dst, r, src, sp) ==
    [dst EXCEPT !.Pix =
        [i \in 1 .. Len(dst.Pix) |->
            drawPixel(dst, r, src, sp,
                      dst.min[1] + (((i - 1) \div 4) % dst.w),
                      dst.min[2] + (((i - 1) \div 4) \div dst.w),
                      (i - 1) % 4)]]

\* the source point image.Pt(0, 0) replaced by im.Bounds().Min
ensureRGBAFromMin(img) ==
    IF img.format = "RGBA" THEN img
    ELSE draw_Draw(NewRGBA(Bounds(img)), Bounds(img), img, img.min)

ensureRGBA(img) ==
    IF img.format = "RGBA" THEN img
    ELSE draw_Draw(NewRGBA(Bounds(img)), Bounds(img), img, <<0, 0>>)

\* an empty RGBA image and a 1 x 1 Gray image
Images ==
    { [format |-> "RGBA", min |-> <<0, 0>>, w |-> 0, h |-> 0, Stride |-> 0,
       Pix |-> <<>>],
      [format |-> "Gray", min |-> <<0, 0>>, w |-> 1, h |-> 1, Stride |-> 1,
       Pix |-> <<7>>] }

\* Context.CreateImageData with the ID g taken from ctx.imageDataIDs and
\* rgba what ensureRGBA returned: the buffer afterwards and the handle
CreateImageDataWith(b, g, m, rgba) ==
    [buf |-> addBytes(addUint32(addUint32(addUint32(addByte(b, bCreateImageData),
                                                    g.id), m.w), m.h), rgba.Pix),
     next |-> g.next,
     h |-> [id |-> g.id, width |-> m.w, height |-> m.h, released |-> FALSE]]

Context_CreateImageData(b, ids, m) ==
    CreateImageDataWith(b, generateID(ids), m, ensureRGBA(m))

Colors ==
    { [model |-> "RGBA", R |-> 1, G |-> 2, B |-> 3, A |-> 255] }

ColorStrings == { <<35, 102, 102, 102>> }    \* "#fff"

----------------------------------------------------------------------------
(* Context: drawing calls that reference a handle.  Each gives the buffer  *)
(* after the call and the panic value, NoFault when the call returns.      *)

PutImageData_checkAfterOpcode(b, src, dx, dy) ==
    IF ImageData_checkUseAfterRelease(src) # NoFault
    THEN [buf |-> addByte(b, bPutImageData),
          fault |-> ImageData_checkUseAfterRelease(src)]
    ELSE [buf |-> addFloats(addUint32(addByte(b, bPutImageData), src.id), <<dx, dy>>),
          fault |-> NoFault]

Context_PutImageData(b, src, dx, dy) ==
    IF ImageData_checkUseAfterRelease(src) # NoFault
    THEN [buf |-> b, fault |-> ImageData_checkUseAfterRelease(src)]
    ELSE [buf |-> addFloats(addUint32(addByte(b, bPutImageData), src.id), <<dx, dy>>),
          fault |-> NoFault]

Context_PutImageDataDirty(b, src, dx, dy, dirtyX, dirtyY, dirtyWidth, dirtyHeight) ==
    IF ImageData_checkUseAfterRelease(src) # NoFault
    THEN [buf |-> b, fault |-> ImageData_checkUseAfterRelease(src)]
    ELSE [buf |-> addFloats(addUint32(addByte(b, bPutImageDataDirty), src.id),
                            <<dx, dy, dirtyX, dirtyY, dirtyWidth, dirtyHeight>>),
          fault |-> NoFault]

Context_DrawImage(b, src, dx, dy) ==
    IF ImageData_checkUseAfterRelease(src) # NoFault
    THEN [buf |-> b, fault |-> ImageData_checkUseAfterRelease(src)]
    ELSE [buf |-> addFloats(addUint32(addByte(b, bDrawImage), src.id), <<dx, dy>>),
          fault |-> NoFault]

Context_DrawImageScaled(b, src, dx, dy, dWidth, dHeight) ==
    IF ImageData_checkUseAfterRelease(src) # NoFault
    THEN [buf |-> b, fault |-> ImageData_checkUseAfterRelease(src)]
    ELSE [buf |-> addFloats(addUint32(addByte(b, bDrawImageScaled), src.id),
                            <<dx, dy, dWidth, dHeight>>),
          fault |-> NoFault]

Context_DrawImageSubRectangle(b, src, sx, sy, sWidth, sHeight, dx, dy, dWidth, dHeight) ==
    IF ImageData_checkUseAfterRelease(src) # NoFault
    THEN [buf |-> b, fault |-> ImageData_checkUseAfterRelease(src)]
    ELSE [buf |-> addFloats(addUint32(addByte(b, bDrawImageSubRectangle), src.id),
                            <<sx, sy, sWidth, sHeight, dx, dy, dWidth, dHeight>>),
          fault |-> NoFault]

Context_CreatePatternIDFirst(b, next, src, repetition) ==
    LET g == generateID(next)
    IN  IF ImageData_checkUseAfterRelease(src) # NoFault
        THEN [buf |-> b, fault |-> ImageData_checkUseAfterRelease(src),
              next |-> g.next, id |-> 0]
        ELSE [buf |-> addByte(addUint32(addUint32(addByte(b, bCreatePattern), g.id),
                                        src.id), repetition),
              fault |-> NoFault, next |-> g.next, id |-> g.id]

\* Context.CreatePattern: also the pattern counter afterwards and the new ID
Context_CreatePattern(b, next, src, repetition) ==
    IF ImageData_checkUseAfterRelease(src) # NoFault
    THEN [buf |-> b, fault |-> ImageData_checkUseAfterRelease(src),
          next |-> next, id |-> 0]
    ELSE LET g == generateID(next)
         IN  [buf |-> addByte(addUint32(addUint32(addByte(b, bCreatePattern), g.id),
                                        src.id), repetition),
              fault |-> NoFault, next |-> g.next, id |-> g.id]

Gradient_AddColorStop(b, g, offset, c) ==
    IF Gradient_checkUseAfterRelease(g) # NoFault
    THEN [buf |-> b, fault |-> Gradient_checkUseAfterRelease(g)]
    ELSE [buf |-> addColor(addFloat64(addUint32(addByte(b, bGradientAddColorStop),
                                                 g.id), offset), c),
          fault |-> NoFault]

Gradient_AddColorStopString(b, g, offset, color) ==
    IF Gradient_checkUseAfterRelease(g) # NoFault
    THEN [buf |-> b, fault |-> Gradient_checkUseAfterRelease(g)]
    ELSE [buf |-> addString(addFloat64(addUint32(addByte(b, bGradientAddColorStopString),
                                                  g.id), offset), color),
          fault |-> NoFault]

Context_SetFillStyleGradient(b, g) ==
    IF Gradient_checkUseAfterRelease(g) # NoFault
    THEN [buf |-> b, fault |-> Gradient_checkUseAfterRelease(g)]
    ELSE [buf |-> addUint32(addByte(b, bFillStyleGradient), g.id), fault |-> NoFault]

Context_SetStrokeStyleGradient(b, g) ==
    IF Gradient_checkUseAfterRelease(g) # NoFault
    THEN [buf |-> b, fault |-> Gradient_checkUseAfterRelease(g)]
    ELSE [buf |-> addUint32(addByte(b, bStrokeStyleGradient), g.id), fault |-> NoFault]

Context_SetFillStylePattern(b, p) ==
    IF Pattern_checkUseAfterRelease(p) # NoFault
    THEN [buf |-> b, fault |-> Pattern_checkUseAfterRelease(p)]
    ELSE [buf |-> addUint32(addByte(b, bFillStylePattern), p.id), fault |-> NoFault]

Context_SetStrokeStylePattern(b, p) ==
    IF Pattern_checkUseAfterRelease(p) # NoFault
    THEN [buf |-> b, fault |-> Pattern_checkUseAfterRelease(p)]
    ELSE [buf |-> addUint32(addByte(b, bStrokeStylePattern), p.id), fault |-> NoFault]

Context_BeginPath(b) == addByte(b, bBeginPath)

----------------------------------------------------------------------------
(* Calls on one Context, made one after the other by its single user.  A   *)
(* panic of a call is recovered by the caller (as in TestUseAfterRelease)  *)
(* and recorded in fault.                                                  *)

\* chan send completed: the message is with the receiver
chanSend(ch, m) == Append(ch, m)

UseOps ==
    { "PutImageData", "PutImageDataDirty", "DrawImage", "DrawImageScaled",
      "DrawImageSubRectangle", "CreatePattern", "AddColorStop",
      "AddColorStopString", "SetFillStyleGradient", "SetStrokeStyleGradient",
      "SetFillStylePattern", "SetStrokeStylePattern" }

Call(op, kind, h, wasReleased) ==
    [op |-> op, kind |-> kind, h |-> h, wasReleased |-> wasReleased,
     bufBefore |-> buf]

\* bookkeeping of one call that ends with buffer nb and panic value f
Issue(c, nb, f) ==
    /\ calls < MaxCalls
    /\ calls' = calls + 1
    /\ buf' = nb
    /\ fault' = f
    /\ last' = c
    /\ pending' = IF Len(nb) > Len(buf)
                  THEN Append(pending, SubSeq(nb, Len(buf) + 1, Len(nb)))
                  ELSE pending
    /\ UNCHANGED <<flushed, flushedCmds, flushReturns, serveVars, unitVars>>

WasReleased(kind, i) == releaseCalls[kind][i] > 0

CountRelease(kind, i) ==
    releaseCalls' = [releaseCalls EXCEPT ![kind][i] = @ + 1]

NewHandle(kind) ==
    releaseCalls' = [releaseCalls EXCEPT ![kind] = Append(@, 0)]

BeginPathSends ==
    /\ calls < MaxCalls
    /\ calls' = calls + 1
    /\ buf' = Context_BeginPath(buf)
    /\ fault' = NoFault
    /\ last' = Call("BeginPath", "none", 0, FALSE)
    /\ pending' = Append(pending, <<bBeginPath>>)
    /\ flushed' = chanSend(flushed, buf')
    /\ UNCHANGED <<flushedCmds, flushReturns, serveVars, unitVars, ctxVars, releaseCalls>>

BeginPath ==
    /\ Issue(Call("BeginPath", "none", 0, FALSE), Context_BeginPath(buf), NoFault)
    /\ UNCHANGED <<ctxVars, releaseCalls>>

CreateImageData ==
    \E m \in Images :
        LET c == Context_CreateImageData(buf, imageDataIDs, m)
        IN  /\ Len(imgs) < MaxHandles
            /\ Issue(Call("CreateImageData", "ImageData", Len(imgs) + 1, FALSE),
                     c.buf, NoFault)
            /\ imageDataIDs' = c.next
            /\ imgs' = Append(imgs, c.h)
            /\ NewHandle("ImageData")
            /\ UNCHANGED <<gradientIDs, patternIDs, grads, pats>>

GetImageData ==
    \E sx \in Floats :
        LET g == generateID(imageDataIDs)
        IN  /\ Len(imgs) < MaxHandles
            /\ Issue(Call("GetImageData", "ImageData", Len(imgs) + 1, FALSE),
                     addFloats(addUint32(addByte(buf, bGetImageData), g.id),
                               <<sx, sx, sx + 1, sx + 2>>),
                     NoFault)
            /\ imageDataIDs' = g.next
            /\ imgs' = Append(imgs, [id |-> g.id, width |-> sx + 1, height |-> sx + 2,
                                     released |-> FALSE])
            /\ NewHandle("ImageData")
            /\ UNCHANGED <<gradientIDs, patternIDs, grads, pats>>

CreateLinearGradient ==
    \E x0 \in Floats :
        LET g == generateID(gradientIDs)
        IN  /\ Len(grads) < MaxHandles
            /\ Issue(Call("CreateLinearGradient", "Gradient", Len(grads) + 1, FALSE),
                     addFloats(addUint32(addByte(buf, bCreateLinearGradient), g.id),
                               <<x0, x0, x0 + 1, x0 + 1>>),
                     NoFault)
            /\ gradientIDs' = g.next
            /\ grads' = Append(grads, [id |-> g.id, released |-> FALSE])
            /\ NewHandle("Gradient")
            /\ UNCHANGED <<imageDataIDs, patternIDs, imgs, pats>>

CreateRadialGradient ==
    \E x0 \in Floats :
        LET g == generateID(gradientIDs)
        IN  /\ Len(grads) < MaxHandles
            /\ Issue(Call("CreateRadialGradient", "Gradient", Len(grads) + 1, FALSE),
                     addFloats(addUint32(addByte(buf, bCreateRadialGradient), g.id),
                               <<x0, x0, 1, x0 + 1, x0 + 1, 2>>),
                     NoFault)
            /\ gradientIDs' = g.next
            /\ grads' = Append(grads, [id |-> g.id, released |-> FALSE])
            /\ NewHandle("Gradient")
            /\ UNCHANGED <<imageDataIDs, patternIDs, imgs, pats>>

CreatePattern ==
    \E i \in DOMAIN imgs, repetition \in PatternRepetitions :
        LET r == Context_CreatePattern(buf, patternIDs, imgs[i], repetition)
        IN  /\ Len(pats) < MaxHandles
            /\ Issue(Call("CreatePattern", "ImageData", i, WasReleased("ImageData", i)),
                     r.buf, r.fault)
            /\ patternIDs' = r.next
            /\ IF r.fault = NoFault
               THEN /\ pats' = Append(pats, [id |-> r.id, released |-> FALSE])
                    /\ NewHandle("Pattern")
               ELSE UNCHANGED <<pats, releaseCalls>>
            /\ UNCHANGED <<imageDataIDs, gradientIDs, imgs, grads>>

PutImageData ==
    \E i \in DOMAIN imgs, dx \in Floats :
        LET r == Context_PutImageData(buf, imgs[i], dx, dx + 1)
        IN  /\ Issue(Call("PutImageData", "ImageData", i, WasReleased("ImageData", i)),
                     r.buf, r.fault)
            /\ UNCHANGED <<ctxVars, releaseCalls>>

PutImageDataDirty ==
    \E i \in DOMAIN imgs, dx \in Floats :
        LET r == Context_PutImageDataDirty(buf, imgs[i], dx, dx + 1, 0, 0, 1, 2)
        IN  /\ Issue(Call("PutImageDataDirty", "ImageData", i, WasReleased("ImageData", i)),
                     r.buf, r.fault)
            /\ UNCHANGED <<ctxVars, releaseCalls>>

DrawImage ==
    \E i \in DOMAIN imgs, dx \in Floats :
        LET r == Context_DrawImage(buf, imgs[i], dx, dx + 1)
        IN  /\ Issue(Call("DrawImage", "ImageData", i, WasReleased("ImageData", i)),
                     r.buf, r.fault)
            /\ UNCHANGED <<ctxVars, releaseCalls>>

DrawImageScaled ==
    \E i \in DOMAIN imgs, dx \in Floats :
        LET r == Context_DrawImageScaled(buf, imgs[i], dx, dx + 1, 3, 4)
        IN  /\ Issue(Call("DrawImageScaled", "ImageData", i, WasReleased("ImageData", i)),
                     r.buf, r.fault)
            /\ UNCHANGED <<ctxVars, releaseCalls>>

DrawImageSubRectangle ==
    \E i \in DOMAIN imgs, dx \in Floats :
        LET r == Context_DrawImageSubRectangle(buf, imgs[i], 0, 1, 2, 3, dx, dx + 1, 4, 5)
        IN  /\ Issue(Call("DrawImageSubRectangle", "ImageData", i,
                          WasReleased("ImageData", i)),
                     r.buf, r.fault)
            /\ UNCHANGED <<ctxVars, releaseCalls>>

AddColorStop ==
    \E i \in DOMAIN grads, offset \in {0, 1}, c \in Colors :
        LET r == Gradient_AddColorStop(buf, grads[i], offset, c)
        IN  /\ Issue(Call("AddColorStop", "Gradient", i, WasReleased("Gradient", i)),
                     r.buf, r.fault)
            /\ UNCHANGED <<ctxVars, releaseCalls>>

AddColorStopString ==
    \E i \in DOMAIN grads, offset \in {0, 1}, color \in ColorStrings :
        LET r == Gradient_AddColorStopString(buf, grads[i], offset, color)
        IN  /\ Issue(Call("AddColorStopString", "Gradient", i, WasReleased("Gradient", i)),
                     r.buf, r.fault)
            /\ UNCHANGED <<ctxVars, releaseCalls>>

SetFillStyleGradient ==
    \E i \in DOMAIN grads :
        LET r == Context_SetFillStyleGradient(buf, grads[i])
        IN  /\ Issue(Call("SetFillStyleGradient", "Gradient", i,
                          WasReleased("Gradient", i)),
                     r.buf, r.fault)
            /\ UNCHANGED <<ctxVars, releaseCalls>>

SetStrokeStyleGradient ==
    \E i \in DOMAIN grads :
        LET r == Context_SetStrokeStyleGradient(buf, grads[i])
        IN  /\ Issue(Call("SetStrokeStyleGradient", "Gradient", i,
                          WasReleased("Gradient", i)),
                     r.buf, r.fault)
            /\ UNCHANGED <<ctxVars, releaseCalls>>

SetFillStylePattern ==
    \E i \in DOMAIN pats :
        LET r == Context_SetFillStylePattern(buf, pats[i])
        IN  /\ Issue(Call("SetFillStylePattern", "Pattern", i, WasReleased("Pattern", i)),
                     r.buf, r.fault)
            /\ UNCHANGED <<ctxVars, releaseCalls>>

SetStrokeStylePattern ==
    \E i \in DOMAIN pats :
        LET r == Context_SetStrokeStylePattern(buf, pats[i])
        IN  /\ Issue(Call("SetStrokeStylePattern", "Pattern", i,
                          WasReleased("Pattern", i)),
                     r.buf, r.fault)
            /\ UNCHANGED <<ctxVars, releaseCalls>>

ReleaseImageData ==
    \E i \in DOMAIN imgs :
        LET r == ImageData_Release(buf, imgs[i])
        IN  /\ Issue(Call("Release", "ImageData", i, WasReleased("ImageData", i)),
                     r.buf, NoFault)
            /\ imgs' = [imgs EXCEPT ![i] = r.h]
            /\ CountRelease("ImageData", i)
            /\ UNCHANGED <<imageDataIDs, gradientIDs, patternIDs, grads, pats>>

ReleaseGradient ==
    \E i \in DOMAIN grads :
        LET r == Gradient_Release(buf, grads[i])
        IN  /\ Issue(Call("Release", "Gradient", i, WasReleased("Gradient", i)),
                     r.buf, NoFault)
            /\ grads' = [grads EXCEPT ![i] = r.h]
            /\ CountRelease("Gradient", i)
            /\ UNCHANGED <<imageDataIDs, gradientIDs, patternIDs, imgs, pats>>

ReleasePattern ==
    \E i \in DOMAIN pats :
        LET r == Pattern_Release(buf, pats[i])
        IN  /\ Issue(Call("Release", "Pattern", i, WasReleased("Pattern", i)),
                     r.buf, NoFault)
            /\ pats' = [pats EXCEPT ![i] = r.h]
            /\ CountRelease("Pattern", i)
            /\ UNCHANGED <<imageDataIDs, gradientIDs, patternIDs, imgs, grads>>

FlushSkipsEmpty ==
    /\ calls < MaxCalls
    /\ calls' = calls + 1
    /\ flushed' = IF buf = <<>> THEN flushed ELSE chanSend(flushed, buf)
    /\ flushedCmds' = IF buf = <<>> THEN flushedCmds ELSE Append(flushedCmds, pending)
    /\ buf' = reset(buf)
    /\ pending' = <<>>
    /\ flushReturns' = flushReturns + 1
    /\ fault' = NoFault
    /\ last' = Call("Flush", "none", 0, FALSE)
    /\ UNCHANGED <<ctxVars, releaseCalls, serveVars, unitVars>>

FlushResetsIDs ==
    /\ calls < MaxCalls
    /\ calls' = calls + 1
    /\ flushed' = chanSend(flushed, buf)
    /\ buf' = reset(buf)
    /\ flushedCmds' = Append(flushedCmds, pending)
    /\ pending' = <<>>
    /\ flushReturns' = flushReturns + 1
    /\ fault' = NoFault
    /\ last' = Call("Flush", "none", 0, FALSE)
    /\ imageDataIDs' = 0
    /\ gradientIDs' = 0
    /\ patternIDs' = 0
    /\ UNCHANGED <<imgs, grads, pats, releaseCalls, serveVars, unitVars>>

\* Context.Flush with a transport that takes the message at once
Flush ==
    /\ calls < MaxCalls
    /\ calls' = calls + 1
    /\ flushed' = chanSend(flushed, buf)
    /\ buf' = reset(buf)
    /\ flushedCmds' = Append(flushedCmds, pending)
    /\ pending' = <<>>
    /\ flushReturns' = flushReturns + 1
    /\ fault' = NoFault
    /\ last' = Call("Flush", "none", 0, FALSE)
    /\ UNCHANGED <<ctxVars, releaseCalls, serveVars, unitVars>>

----------------------------------------------------------------------------
(* buffer: read side (buffer.go).  A buffer is [bytes, error]; a read      *)
(* gives the value read and the buffer afterwards.                         *)

NoError == [kind |-> "nil"]
ErrDataTooShort == [kind |-> "data too short"]

\* errUnknownEventType{unknownType: b}
ErrUnknownEventType(b) == [kind |-> "unknown event type", unknownType |-> b]

newBuffer(p) == [bytes |-> p, error |-> NoError]

dataTooShortKeepsBytes(rb) == [bytes |-> rb.bytes, error |-> ErrDataTooShort]

\* buffer.dataTooShort
dataTooShort(rb) == [bytes |-> reset(rb.bytes), error |-> ErrDataTooShort]

\* p[n+1:], one byte too far
DropOneMore(p, n) == SubSeq(p, n + 2, Len(p))

\* p[n:]
Drop(p, n) == SubSeq(p, n + 1, Len(p))

\* byteOrder.Uint32
Uint32(p) == p[1] * 16777216 + p[2] * 65536 + p[3] * 256 + p[4]

ZeroUint64 == <<0, 0, 0, 0, 0, 0, 0, 0>>

\* math.Float64frombits of a pattern given as 8 big-endian bytes: the value
\* when it is integral and below 2^20, otherwise the pattern itself
Float64frombits(bits) ==
    LET hi == Uint32(SubSeq(bits, 1, 4))
        e == (hi \div 1048576) - 1023
        frac == hi % 1048576
    IN  IF bits = ZeroUint64 THEN 0
        ELSE IF /\ SubSeq(bits, 5, 8) = <<0, 0, 0, 0>>
                /\ bits[1] < 128
                /\ e >= 0 /\ e < 20
                /\ frac % Pow2(20 - e) = 0
             THEN Pow2(e) + frac \div Pow2(20 - e)
             ELSE [bits |-> bits]

readByteNoError(rb) ==
    IF Len(rb.bytes) < 1 THEN [v |-> 0, buf |-> rb]
    ELSE [v |-> rb.bytes[1], buf |-> [rb EXCEPT !.bytes = Drop(rb.bytes, 1)]]

readByte(rb) ==
    IF Len(rb.bytes) < 1 THEN [v |-> 0, buf |-> dataTooShort(rb)]
    ELSE [v |-> rb.bytes[1], buf |-> [rb EXCEPT !.bytes = Drop(rb.bytes, 1)]]

readUint32(rb) ==
    IF Len(rb.bytes) < 4 THEN [v |-> 0, buf |-> dataTooShort(rb)]
    ELSE [v |-> Uint32(rb.bytes), buf |-> [rb EXCEPT !.bytes = Drop(rb.bytes, 4)]]

readUint64NoError(rb) ==
    IF Len(rb.bytes) < 8 THEN [v |-> ZeroUint64, buf |-> rb]
    ELSE [v |-> SubSeq(rb.bytes, 1, 8), buf |-> [rb EXCEPT !.bytes = Drop(rb.bytes, 8)]]

\* the uint64 is kept as its 8 big-endian bytes
readUint64(rb) ==
    IF Len(rb.bytes) < 8 THEN [v |-> ZeroUint64, buf |-> dataTooShort(rb)]
    ELSE [v |-> SubSeq(rb.bytes, 1, 8), buf |-> [rb EXCEPT !.bytes = Drop(rb.bytes, 8)]]

\* math.Float64frombits of the uint64 that was read
float64frombits(r) == [v |-> Float64frombits(r.v), buf |-> r.buf]

readFloat64(rb) == float64frombits(readUint64(rb))

\* readString after its length l has been read
readStringBytes(l) ==
    IF Len(l.buf.bytes) < l.v THEN [v |-> <<>>, buf |-> dataTooShort(l.buf)]
    ELSE [v |-> SubSeq(l.buf.bytes, 1, l.v),
          buf |-> [l.buf EXCEPT !.bytes = Drop(l.buf.bytes, l.v)]]

readString(rb) == readStringBytes(readUint32(rb))

----------------------------------------------------------------------------
(* Event decoder (event.go) *)

evMouseMove == 1
evMouseDown == 2
evMouseUp == 3
evKeyDown == 4
evKeyUp == 5
evClick == 6
evDblClick == 7
evAuxClick == 8
evWheel == 9
evTouchStart == 10
evTouchMove == 11
evTouchEnd == 12
evTouchCancel == 13

NilEvent == [type |-> "nil"]
CloseEvent == [type |-> "CloseEvent"]

RECURSIVE readFields(_, _)
RECURSIVE decodeTouches(_, _)

\* the value r, read first, in front of the values read after it
Cons(r, rest) == [v |-> <<r.v>> \o rest.v, buf |-> rest.buf]

\* decodeTouchList after its length byte has been read
decodeTouchListOf(length) == decodeTouches(length.buf, length.v)

\* decodeTouchList: one length byte, then that many touches
decodeTouchList(rb) == decodeTouchListOf(readByte(rb))

\* one read of the named kind
readField(rb, type) ==
    CASE type = "byte" -> readByte(rb)
      [] type = "uint32" -> readUint32(rb)
      [] type = "float64" -> readFloat64(rb)
      [] type = "string" -> readString(rb)
      [] type = "TouchList" -> decodeTouchList(rb)

\* the reads that follow the read r
readRest(r, types) == Cons(r, readFields(r.buf, types))

\* consecutive reads, in the order the decoder makes them: the values read
\* and the buffer afterwards
readFields(rb, types) ==
    IF types = <<>> THEN [v |-> <<>>, buf |-> rb]
    ELSE readRest(readField(rb, Head(types)), Tail(types))

MouseEvent(f) == [Buttons |-> f[1], X |-> f[2], Y |-> f[3], Mod |-> f[4]]

KeyboardEvent(f) == [Mod |-> f[1], Key |-> f[2]]

WheelEvent(f) ==
    [MouseEvent |-> MouseEvent(f), DeltaX |-> f[5], DeltaY |-> f[6],
     DeltaZ |-> f[7], DeltaMode |-> f[8]]

Touch(f) == [Identifier |-> f[1], X |-> f[2], Y |-> f[3]]

TouchEvent(f) ==
    [Touches |-> f[1], ChangedTouches |-> f[2], TargetTouches |-> f[3], Mod |-> f[4]]

\* the struct of the given kind filled from the values read
Struct(kind, r) ==
    [v |-> CASE kind = "MouseEvent" -> MouseEvent(r.v)
             [] kind = "KeyboardEvent" -> KeyboardEvent(r.v)
             [] kind = "WheelEvent" -> WheelEvent(r.v)
             [] kind = "Touch" -> Touch(r.v)
             [] kind = "TouchEvent" -> TouchEvent(r.v),
     buf |-> r.buf]

\* MouseEvent with X and Y filled from each other's values
MouseEventYX(r) ==
    [v |-> [Buttons |-> r.v[1], X |-> r.v[3], Y |-> r.v[2], Mod |-> r.v[4]],
     buf |-> r.buf]

decodeMouseEventYX(rb) ==
    MouseEventYX(readFields(rb, <<"byte", "uint32", "uint32", "byte">>))

decodeMouseEvent(rb) ==
    Struct("MouseEvent", readFields(rb, <<"byte", "uint32", "uint32", "byte">>))

decodeKeyboardEvent(rb) ==
    Struct("KeyboardEvent", readFields(rb, <<"byte", "string">>))

\* decodeMouseEvent, then DeltaX, DeltaY, DeltaZ, DeltaMode
decodeWheelEvent(rb) ==
    Struct("WheelEvent", readFields(rb, <<"byte", "uint32", "uint32", "byte",
                                          "float64", "float64", "float64", "byte">>))

decodeTouch(rb) ==
    Struct("Touch", readFields(rb, <<"uint32", "uint32", "uint32">>))

\* the touches that follow the touch t
decodeTouchesRest(t, n) == Cons(t, decodeTouches(t.buf, n))

\* the loop of decodeTouchList: n more elements
decodeTouches(rb, n) ==
    IF n = 0 THEN [v |-> <<>>, buf |-> rb]
    ELSE decodeTouchesRest(decodeTouch(rb), n - 1)

\* TouchEvent with ChangedTouches and TargetTouches filled from each other's lists
TouchEventSwapped(r) ==
    [v |-> [Touches |-> r.v[1], ChangedTouches |-> r.v[3], TargetTouches |-> r.v[2],
            Mod |-> r.v[4]],
     buf |-> r.buf]

decodeTouchEventSwapped(rb) ==
    TouchEventSwapped(readFields(rb, <<"TouchList", "TouchList", "TouchList", "byte">>))

decodeTouchEvent(rb) ==
    Struct("TouchEvent",
           readFields(rb, <<"TouchList", "TouchList", "TouchList", "byte">>))

\* the event struct that wraps the decoded payload, no error
Wrap(type, r) ==
    [event |-> [type |-> type, e |-> r.v], err |-> NoError, buf |-> r.buf]

\* the switch of decodeEventBuf on the event type t that was read
decodeEventType(t) ==
    CASE t.v = evMouseMove -> Wrap("MouseMoveEvent", decodeMouseEvent(t.buf))
      [] t.v = evMouseDown -> Wrap("MouseDownEvent", decodeMouseEvent(t.buf))
      [] t.v = evMouseUp -> Wrap("MouseUpEvent", decodeMouseEvent(t.buf))
      [] t.v = evKeyDown -> Wrap("KeyDownEvent", decodeKeyboardEvent(t.buf))
      [] t.v = evKeyUp -> Wrap("KeyUpEvent", decodeKeyboardEvent(t.buf))
      [] t.v = evClick -> Wrap("ClickEvent", decodeMouseEvent(t.buf))
      [] t.v = evDblClick -> Wrap("DblClickEvent", decodeMouseEvent(t.buf))
      [] t.v = evAuxClick -> Wrap("AuxClickEvent", decodeMouseEvent(t.buf))
      [] t.v = evWheel -> Wrap("WheelEvent", decodeWheelEvent(t.buf))
      [] t.v = evTouchStart -> Wrap("TouchStartEvent", decodeTouchEvent(t.buf))
      [] t.v = evTouchMove -> Wrap("TouchMoveEvent", decodeTouchEvent(t.buf))
      [] t.v = evTouchEnd -> Wrap("TouchEndEvent", decodeTouchEvent(t.buf))
      [] t.v = evTouchCancel -> Wrap("TouchCancelEvent", decodeTouchEvent(t.buf))
      [] OTHER -> [event |-> NilEvent, err |-> ErrUnknownEventType(t.v),
                   buf |-> t.buf]

decodeEventBuf(rb) == decodeEventType(readByte(rb))

decodeEventResultTrailing(r) ==
    IF r.buf.error # NoError \/ r.buf.bytes # <<>>
    THEN [event |-> NilEvent, err |-> ErrDataTooShort]
    ELSE [event |-> r.event, err |-> r.err]

decodeEventResultNextType(r) ==
    IF r.buf.error # NoError THEN [event |-> NilEvent, err |-> r.buf.error]
    ELSE IF r.buf.bytes # <<>>
         THEN [event |-> NilEvent, err |-> ErrUnknownEventType(r.buf.bytes[1])]
         ELSE [event |-> r.event, err |-> r.err]

decodeEventResultIgnoresBuffer(r) == [event |-> r.event, err |-> r.err]

\* decodeEvent's return values, given what decodeEventBuf returned
decodeEventResult(r) ==
    IF r.buf.error # NoError THEN [event |-> NilEvent, err |-> r.buf.error]
    ELSE [event |-> r.event, err |-> r.err]

decodeEvent(p) == decodeEventResult(decodeEventBuf(newBuffer(p)))

----------------------------------------------------------------------------
(* One session: drawHandler.ServeHTTP, readMessages, writeMessages and the *)
(* run function (serve.go).  The state after the handler has made the two  *)
(* channels, called wg.Add(2) and started the three goroutines is Init.    *)

BinaryMessage == "websocket.BinaryMessage"
TextMessage == "websocket.TextMessage"

\* messages the client can send
WireMessages ==
    { [messageType |-> BinaryMessage, p |-> <<1, 0, 0, 0, 0, 200, 0, 0, 0, 150, 5>>],
      [messageType |-> BinaryMessage, p |-> <<4, 1, 0, 0, 0, 1, 97>>],
      [messageType |-> BinaryMessage, p |-> <<1, 0, 0>>],
      [messageType |-> BinaryMessage, p |-> <<14>>],
      [messageType |-> TextMessage, p |-> <<1, 0, 0, 0, 0, 200, 0, 0, 0, 150, 5>>] }

NegativeCounter == "sync: negative WaitGroup counter"
SendOnClosed == "send on closed channel"

Running == crashed = NoFault

encIdle == <<ctxVars, encHist>>

\* wg.Done of a goroutine that moves to position "done"
wgDone ==
    /\ wg' = wg - 1
    /\ crashed' = IF wg - 1 < 0 THEN NegativeCounter ELSE crashed

\* the peer closes the connection, or the network fails
ConnClose ==
    /\ Running
    /\ conn = "open"
    /\ conn' = "closed"
    /\ UNCHANGED <<buf, flushed, flushReturns, encIdle, unitVars, messageType, hPc, rPc,
                   wPc, runPc, wg, evMsg, wMsg, drawsClosed, eventsClosed,
                   crashed, reads, decoded, decodeErr, decodeFaults, received,
                   written>>

ReadDecodedNoHandoff(d) ==
    /\ decodeErr' = d.err
    /\ decodeFaults' = IF d.err # NoError THEN decodeFaults + 1 ELSE decodeFaults
    /\ IF d.err # NoError
       THEN UNCHANGED <<rPc, evMsg, decoded>>
       ELSE /\ rPc' = "read"
            /\ evMsg' = d.event
            /\ decoded' = Append(decoded, d.event)

ReadDecodedBreaks(d) ==
    /\ decodeErr' = d.err
    /\ decodeFaults' = IF d.err # NoError THEN decodeFaults + 1 ELSE decodeFaults
    /\ IF d.err # NoError
       THEN rPc' = "done" /\ UNCHANGED <<evMsg, decoded>>
       ELSE /\ rPc' = "send"
            /\ evMsg' = d.event
            /\ decoded' = Append(decoded, d.event)

\* readMessages after decodeEvent returned d: continue on an error,
\* otherwise go on to events <- event
ReadDecoded(d) ==
    /\ decodeErr' = d.err
    /\ decodeFaults' = IF d.err # NoError THEN decodeFaults + 1 ELSE decodeFaults
    /\ IF d.err # NoError
       THEN UNCHANGED <<rPc, evMsg, decoded>>
       ELSE /\ rPc' = "send"
            /\ evMsg' = d.event
            /\ decoded' = Append(decoded, d.event)

\* the step of readMessages after a message m was read, without the test
\* of the message type
ReadAnyType(m) == ReadDecoded(decodeEvent(m.p))

\* the step of readMessages after a message m was read: a message that is
\* not binary is skipped
ReadOfType(m) ==
    IF m.messageType # BinaryMessage
    THEN UNCHANGED <<rPc, evMsg, decoded, decodeErr, decodeFaults>>
    ELSE ReadDecoded(decodeEvent(m.p))

\* readMessages: conn.ReadMessage returns a message
ReadMessage ==
    /\ Running
    /\ rPc = "read"
    /\ conn = "open"
    /\ reads < MaxReads
    /\ reads' = reads + 1
    /\ \E m \in WireMessages :
          /\ messageType' = m.messageType
          /\ ReadOfType(m)
    /\ UNCHANGED <<buf, flushed, flushReturns, encIdle, unitVars, hPc, wPc,
                   runPc, wg, conn, wMsg, drawsClosed, eventsClosed, crashed,
                   received, written>>

\* readMessages: conn.ReadMessage returns an error; break, deferred wg.Done
ReadError ==
    /\ Running
    /\ rPc = "read"
    /\ conn = "closed"
    /\ rPc' = "done"
    /\ wgDone
    /\ UNCHANGED <<buf, flushed, flushReturns, encIdle, unitVars, messageType, hPc, wPc,
                   runPc, conn, evMsg, wMsg, drawsClosed, eventsClosed, reads,
                   decoded, decodeErr, decodeFaults, received, written>>

\* the run function starts to receive from ctx.Events(); a closed channel
\* gives the zero value at once
RunReceive ==
    /\ Running
    /\ runPc = "idle"
    /\ IF eventsClosed
       THEN received' = Append(received, NilEvent) /\ UNCHANGED runPc
       ELSE runPc' = "recv" /\ UNCHANGED received
    /\ UNCHANGED <<buf, flushed, flushReturns, encIdle, unitVars, messageType, hPc, rPc,
                   wPc, wg, conn, evMsg, wMsg, drawsClosed, eventsClosed,
                   crashed, reads, decoded, decodeErr, decodeFaults, written>>

EventHandoffDrops ==
    /\ Running
    /\ rPc = "send"
    /\ IF eventsClosed
       THEN /\ crashed' = SendOnClosed
            /\ UNCHANGED <<received, rPc, runPc>>
       ELSE /\ received' = IF runPc = "recv" THEN Append(received, evMsg) ELSE received
            /\ rPc' = "read"
            /\ runPc' = IF runPc = "recv" THEN "idle" ELSE runPc
            /\ UNCHANGED crashed
    /\ UNCHANGED <<buf, flushed, flushReturns, encIdle, unitVars, messageType, hPc, wPc,
                   wg, conn, evMsg, wMsg, drawsClosed, eventsClosed, reads,
                   decoded, decodeErr, decodeFaults, written>>

\* events <- event in readMessages meets <-ctx.Events() in the run function;
\* on a closed channel the send panics
EventHandoff ==
    /\ Running
    /\ rPc = "send"
    /\ IF eventsClosed
       THEN /\ crashed' = SendOnClosed
            /\ UNCHANGED <<received, rPc, runPc>>
       ELSE /\ runPc = "recv"
            /\ received' = Append(received, evMsg)
            /\ rPc' = "read"
            /\ runPc' = "idle"
            /\ UNCHANGED crashed
    /\ UNCHANGED <<buf, flushed, flushReturns, encIdle, unitVars, messageType, hPc, wPc,
                   wg, conn, evMsg, wMsg, drawsClosed, eventsClosed, reads,
                   decoded, decodeErr, decodeFaults, written>>

\* events <- CloseEvent{} in ServeHTTP meets <-ctx.Events() in the run function
CloseHandoff ==
    /\ Running
    /\ hPc = "sendClose"
    /\ runPc = "recv"
    /\ received' = Append(received, CloseEvent)
    /\ hPc' = "wait2"
    /\ runPc' = "idle"
    /\ UNCHANGED <<buf, flushed, flushReturns, encIdle, unitVars, messageType, rPc, wPc,
                   wg, conn, evMsg, wMsg, drawsClosed, eventsClosed, crashed,
                   reads, decoded, decodeErr, decodeFaults, written>>

\* the run function issues a drawing command
RunDraw ==
    /\ Running
    /\ runPc = "idle"
    /\ Len(buf) < MaxDraws
    /\ buf' = Context_BeginPath(buf)
    /\ UNCHANGED <<flushed, flushReturns, encIdle, serveVars, unitVars>>

\* the run function calls ctx.Flush and reaches ctx.draws <- ctx.buf.bytes
RunFlush ==
    /\ Running
    /\ runPc = "idle"
    /\ flushReturns < MaxFlushes
    /\ IF drawsClosed
       THEN crashed' = SendOnClosed /\ UNCHANGED runPc
       ELSE runPc' = "flush" /\ UNCHANGED crashed
    /\ UNCHANGED <<buf, flushed, flushReturns, encIdle, unitVars, messageType, hPc, rPc,
                   wPc, wg, conn, evMsg, wMsg, drawsClosed, eventsClosed,
                   reads, decoded, decodeErr, decodeFaults, received,
                   written>>

\* ctx.draws <- ctx.buf.bytes in Flush meets message := <-messages
DrawHandoff ==
    /\ Running
    /\ runPc = "flush"
    /\ wPc = "recv"
    /\ ~drawsClosed
    /\ flushed' = chanSend(flushed, buf)
    /\ wMsg' = buf
    /\ wPc' = "write"
    /\ runPc' = "reset"
    /\ UNCHANGED <<buf, flushReturns, encIdle, unitVars, messageType, hPc, rPc, wg, conn,
                   evMsg, drawsClosed, eventsClosed, crashed, reads, decoded,
                   decodeErr, decodeFaults, received, written>>

\* Flush: ctx.buf.reset() and return
FlushReturn ==
    /\ Running
    /\ runPc = "reset"
    /\ buf' = reset(buf)
    /\ flushReturns' = flushReturns + 1
    /\ runPc' = "idle"
    /\ UNCHANGED <<flushed, encIdle, unitVars, messageType, hPc, rPc, wPc, wg, conn, evMsg,
                   wMsg, drawsClosed, eventsClosed, crashed, reads, decoded,
                   decodeErr, decodeFaults, received, written>>

\* the run function returns; deferred wg.Done
RunReturn ==
    /\ Running
    /\ runPc = "idle"
    /\ runPc' = "done"
    /\ wgDone
    /\ UNCHANGED <<buf, flushed, flushReturns, encIdle, unitVars, messageType, hPc, rPc,
                   wPc, conn, evMsg, wMsg, drawsClosed, eventsClosed, reads,
                   decoded, decodeErr, decodeFaults, received, written>>

WriteMessageTwice ==
    /\ Running
    /\ wPc = "write"
    /\ written' = Append(Append(written, wMsg), wMsg)
    /\ IF conn = "open"
       THEN /\ IF drawsClosed
               THEN wMsg' = <<>> /\ UNCHANGED wPc
               ELSE wPc' = "recv" /\ UNCHANGED wMsg
            /\ UNCHANGED <<wg, crashed>>
       ELSE wPc' = "done" /\ wgDone /\ UNCHANGED wMsg
    /\ UNCHANGED <<buf, flushed, flushReturns, encIdle, unitVars, messageType, hPc, rPc,
                   runPc, conn, evMsg, drawsClosed, eventsClosed, reads,
                   decoded, decodeErr, decodeFaults, received>>

\* writeMessages: conn.WriteMessage; on an error break, deferred wg.Done;
\* otherwise back to message := <-messages, which gives nil at once when the
\* channel is closed
WriteMessage ==
    /\ Running
    /\ wPc = "write"
    /\ written' = Append(written, wMsg)
    /\ IF conn = "open"
       THEN /\ IF drawsClosed
               THEN wMsg' = <<>> /\ UNCHANGED wPc
               ELSE wPc' = "recv" /\ UNCHANGED wMsg
            /\ UNCHANGED <<wg, crashed>>
       ELSE wPc' = "done" /\ wgDone /\ UNCHANGED wMsg
    /\ UNCHANGED <<buf, flushed, flushReturns, encIdle, unitVars, messageType, hPc, rPc,
                   runPc, conn, evMsg, drawsClosed, eventsClosed, reads,
                   decoded, decodeErr, decodeFaults, received>>

Wait1NoWait ==
    /\ Running
    /\ hPc = "wait1"
    /\ hPc' = "add1"
    /\ UNCHANGED <<buf, flushed, flushReturns, encIdle, unitVars, messageType, rPc, wPc,
                   runPc, wg, conn, evMsg, wMsg, drawsClosed, eventsClosed,
                   crashed, reads, decoded, decodeErr, decodeFaults, received,
                   written>>

\* ServeHTTP: the first wg.Wait() returns
Wait1 ==
    /\ Running
    /\ hPc = "wait1"
    /\ wg = 0
    /\ hPc' = "add1"
    /\ UNCHANGED <<buf, flushed, flushReturns, encIdle, unitVars, messageType, rPc, wPc,
                   runPc, wg, conn, evMsg, wMsg, drawsClosed, eventsClosed,
                   crashed, reads, decoded, decodeErr, decodeFaults, received,
                   written>>

\* ServeHTTP: wg.Add(1), then it reaches events <- CloseEvent{}
Add1 ==
    /\ Running
    /\ hPc = "add1"
    /\ wg' = wg + 1
    /\ crashed' = IF wg + 1 < 0 THEN NegativeCounter ELSE crashed
    /\ hPc' = "sendClose"
    /\ UNCHANGED <<buf, flushed, flushReturns, encIdle, unitVars, messageType, rPc, wPc,
                   runPc, conn, evMsg, wMsg, drawsClosed, eventsClosed, reads,
                   decoded, decodeErr, decodeFaults, received, written>>

Wait2NoWait ==
    /\ Running
    /\ hPc = "wait2"
    /\ hPc' = "closeDraws"
    /\ UNCHANGED <<buf, flushed, flushReturns, encIdle, unitVars, messageType, rPc, wPc,
                   runPc, wg, conn, evMsg, wMsg, drawsClosed, eventsClosed,
                   crashed, reads, decoded, decodeErr, decodeFaults, received,
                   written>>

\* ServeHTTP: the second wg.Wait() returns
Wait2 ==
    /\ Running
    /\ hPc = "wait2"
    /\ wg = 0
    /\ hPc' = "closeDraws"
    /\ UNCHANGED <<buf, flushed, flushReturns, encIdle, unitVars, messageType, rPc, wPc,
                   runPc, wg, conn, evMsg, wMsg, drawsClosed, eventsClosed,
                   crashed, reads, decoded, decodeErr, decodeFaults, received,
                   written>>

\* ServeHTTP returns: deferred close(draws); a receiver blocked on the channel
\* gets nil, a sender blocked on it panics
CloseDraws ==
    /\ Running
    /\ hPc = "closeDraws"
    /\ drawsClosed' = TRUE
    /\ hPc' = "closeEvents"
    /\ IF wPc = "recv"
       THEN wMsg' = <<>> /\ wPc' = "write"
       ELSE UNCHANGED <<wMsg, wPc>>
    /\ crashed' = IF runPc = "flush" THEN SendOnClosed ELSE crashed
    /\ UNCHANGED <<buf, flushed, flushReturns, encIdle, unitVars, messageType, rPc, runPc,
                   wg, conn, evMsg, eventsClosed, reads, decoded, decodeErr,
                   decodeFaults, received, written>>

\* ServeHTTP returns: deferred close(events); a receiver blocked on the
\* channel gets the zero value, a sender blocked on it panics
CloseEvents ==
    /\ Running
    /\ hPc = "closeEvents"
    /\ eventsClosed' = TRUE
    /\ hPc' = "done"
    /\ IF runPc = "recv"
       THEN received' = Append(received, NilEvent) /\ runPc' = "idle"
       ELSE UNCHANGED <<received, runPc>>
    /\ crashed' = IF rPc = "send" THEN SendOnClosed ELSE crashed
    /\ UNCHANGED <<buf, flushed, flushReturns, encIdle, unitVars, messageType, rPc, wPc,
                   wg, conn, evMsg, wMsg, drawsClosed, reads, decoded,
                   decodeErr, decodeFaults, written>>

----------------------------------------------------------------------------
(* decodeEvent called on single messages *)

MaxDecodes == 1     \* decodeEvent calls recorded in one behaviour

KnownEventTypes ==
    { evMouseMove, evMouseDown, evMouseUp, evKeyDown, evKeyUp, evClick, evDblClick,
      evAuxClick, evWheel, evTouchStart, evTouchMove, evTouchEnd, evTouchCancel }

\* first bytes that are no event type
UnknownEventTypes == {0, 14, 15, 250, 255}

\* bytes that follow the first byte of a message of unknown type
Tails == { <<>>, <<0>>, <<1, 2>>, <<255, 0, 0, 0, 1>> }

\* well-formed payloads: buttons, x, y, modifier keys
MousePayload == <<1, 0, 0, 0, 200, 0, 0, 0, 150, 5>>

\* modifier keys, key name "ab"
KeyboardPayload == <<2, 0, 0, 0, 2, 97, 98>>

\* mouse payload, deltaX = 10, deltaY = 0, deltaZ = 0, delta mode
WheelPayload ==
    MousePayload \o <<64, 36, 0, 0, 0, 0, 0, 0>> \o <<0, 0, 0, 0, 0, 0, 0, 0>>
                 \o <<0, 0, 0, 0, 0, 0, 0, 0>> \o <<1>>

\* one touch in touches, none in changedTouches, one in targetTouches,
\* modifier keys
TouchPayload ==
    <<1, 0, 0, 0, 7, 0, 0, 0, 10, 0, 0, 0, 20>> \o <<0>>
        \o <<1, 0, 0, 0, 8, 0, 0, 0, 30, 0, 0, 0, 40>> \o <<3>>

Payload(eventType) ==
    CASE eventType \in {evKeyDown, evKeyUp} -> KeyboardPayload
      [] eventType = evWheel -> WheelPayload
      [] eventType \in {evTouchStart, evTouchMove, evTouchEnd, evTouchCancel} ->
            TouchPayload
      [] OTHER -> MousePayload

\* further well-formed payloads: X = 256 and all else zero; an empty key
\* name; the key name "Enter"; deltaX = 0, deltaY = 3, deltaZ = -1
MousePayloadB == <<0, 0, 0, 1, 0, 0, 0, 0, 0, 0>>

KeyboardPayloadB == <<0, 0, 0, 0, 0>>

KeyboardPayloadC == <<15, 0, 0, 0, 5, 69, 110, 116, 101, 114>>

WheelPayloadB ==
    MousePayloadB \o <<0, 0, 0, 0, 0, 0, 0, 0>> \o <<64, 8, 0, 0, 0, 0, 0, 0>>
                  \o <<191, 240, 0, 0, 0, 0, 0, 0>> \o <<0>>

\* no touches at all
TouchPayloadB == <<0, 0, 0, 0>>

\* two touches in touches, one in changedTouches, one in targetTouches
TouchPayloadC ==
    <<2, 0, 0, 0, 0, 0, 0, 15, 0, 0, 0, 0, 165, 0, 0, 0, 1, 0, 0, 3, 16, 0, 0, 2, 5>>
        \o <<1, 0, 0, 0, 1, 0, 0, 0, 240, 0, 0, 0, 162>>
        \o <<1, 0, 0, 0, 2, 0, 0, 1, 0, 0, 0, 2, 0>> \o <<5>>

\* one touch in changedTouches only
TouchPayloadD == <<0>> \o <<1, 0, 0, 0, 0, 0, 0, 1, 84, 0, 0, 0, 210>> \o <<0>> \o <<1>>

OtherPayloads(eventType) ==
    CASE eventType \in {evKeyDown, evKeyUp} -> {KeyboardPayloadB, KeyboardPayloadC}
      [] eventType = evWheel -> {WheelPayloadB}
      [] eventType \in {evTouchStart, evTouchMove, evTouchEnd, evTouchCancel} ->
            {TouchPayloadB, TouchPayloadC, TouchPayloadD, TouchPayload \o <<1, 2>>}
      [] OTHER -> {MousePayloadB}

\* the well-formed messages
WellFormedInputs ==
    { <<b>> \o Payload(b) : b \in KnownEventTypes }
    \cup UNION { { <<b>> \o q : q \in OtherPayloads(b) } : b \in KnownEventTypes }

\* a well-formed message followed by further bytes
FollowedInputs == { q \o t : q \in WellFormedInputs, t \in Tails }

StrictPrefixes(q) == { SubSeq(q, 1, n) : n \in 0..(Len(q) - 1) }

DecodeInputs ==
    { <<>> }
    \cup UNION { { <<b>> \o t : t \in Tails } : b \in UnknownEventTypes }
    \cup FollowedInputs
    \cup UNION { { <<b>> \o q : q \in StrictPrefixes(Payload(b)) } : b \in KnownEventTypes }

\* rest: the bytes left in buf when decodeEventBuf has returned
DecodeCall(p, r, rest) == [p |-> p, event |-> r.event, err |-> r.err, rest |-> rest]

\* one call decodeEvent(p)
DecodeEvent ==
    /\ Len(results) < MaxDecodes
    /\ \E p \in DecodeInputs :
          results' = Append(results, DecodeCall(p, decodeEvent(p),
                                                decodeEventBuf(newBuffer(p)).buf.bytes))
    /\ UNCHANGED <<sessionVars, pureVars, bufVars, genVars>>

----------------------------------------------------------------------------
(* read primitives called on one buffer *)

MaxBufReads == 3    \* reads made on the buffer in one behaviour

\* uint32 2, the bytes "ab", float64 10, one more byte
SampleBytes == <<0, 0, 0, 2, 97, 98, 64, 36, 0, 0, 0, 0, 0, 0, 1>>

InitialBytes == { SubSeq(SampleBytes, 1, n) : n \in 0..Len(SampleBytes) }

\* the zero value of what each read primitive returns
Zero(op) ==
    CASE op = "readUint64" -> ZeroUint64
      [] op = "readString" -> <<>>
      [] OTHER -> 0

ReadCall(op, before, r) == [op |-> op, before |-> before, v |-> r.v, after |-> r.buf]

\* one call of a read primitive on rbuf that returned r
Read(op, r) ==
    /\ Len(readLog) < MaxBufReads
    /\ rbuf' = r.buf
    /\ readLog' = Append(readLog, ReadCall(op, rbuf, r))
    /\ UNCHANGED <<sessionVars, pureVars, decodeVars, genVars>>

ReadByte == Read("readByte", readByte(rbuf))

ReadUint32 == Read("readUint32", readUint32(rbuf))

ReadUint64 == Read("readUint64", readUint64(rbuf))

ReadFloat64 == Read("readFloat64", readFloat64(rbuf))

ReadString == Read("readString", readString(rbuf))

----------------------------------------------------------------------------
(* one idGenerator called from several goroutines *)

NumGoroutines == 2  \* goroutines that call the generator
MaxIssued == 3      \* calls of the generator in one behaviour

Goroutines == 1..NumGoroutines

Started == Len(issued) + Cardinality({ g \in Goroutines : gPc[g] # "idle" })

\* a goroutine enters generateID, which takes no lock
generateID_Call(g) ==
    /\ gPc[g] = "idle"
    /\ Started < MaxIssued
    /\ gPc' = [gPc EXCEPT ![g] = "id"]
    /\ UNCHANGED <<sessionVars, pureVars, decodeVars, bufVars, gNext, nextMu, gId, gTmp, issued>>

\* a goroutine enters GenerateID: g.nextMu.Lock()
GenerateID_Lock(g) ==
    /\ gPc[g] = "idle"
    /\ Started < MaxIssued
    /\ nextMu = 0
    /\ nextMu' = g
    /\ gPc' = [gPc EXCEPT ![g] = "id"]
    /\ UNCHANGED <<sessionVars, pureVars, decodeVars, bufVars, gNext, gId, gTmp, issued>>

\* id := g.next
ReadNext(g) ==
    /\ gPc[g] = "id"
    /\ gId' = [gId EXCEPT ![g] = gNext]
    /\ gPc' = [gPc EXCEPT ![g] = "load"]
    /\ UNCHANGED <<sessionVars, pureVars, decodeVars, bufVars, gNext, nextMu, gTmp, issued>>

\* g.next++: the load
LoadNext(g) ==
    /\ gPc[g] = "load"
    /\ gTmp' = [gTmp EXCEPT ![g] = gNext]
    /\ gPc' = [gPc EXCEPT ![g] = "store"]
    /\ UNCHANGED <<sessionVars, pureVars, decodeVars, bufVars, gNext, nextMu, gId, issued>>

\* g.next++: the store
StoreNext(g) ==
    /\ gPc[g] = "store"
    /\ gNext' = gTmp[g] + 1
    /\ gPc' = [gPc EXCEPT ![g] = "return"]
    /\ UNCHANGED <<sessionVars, pureVars, decodeVars, bufVars, nextMu, gId, gTmp, issued>>

\* return id; the deferred g.nextMu.Unlock() of GenerateID
ReturnID(g) ==
    /\ gPc[g] = "return"
    /\ issued' = Append(issued, gId[g])
    /\ nextMu' = IF nextMu = g THEN 0 ELSE nextMu
    /\ gPc' = [gPc EXCEPT ![g] = "idle"]
    /\ UNCHANGED <<sessionVars, pureVars, decodeVars, bufVars, gNext, gId, gTmp>>

----------------------------------------------------------------------------
(* Options.eventMask (options.go) and the mask methods (event.go) *)

MaxEvents == 2      \* events in o.EnabledEvents

maskMouseMove == 1
maskMouseDown == 2
maskMouseUp == 4
maskKeyDown == 8
maskKeyUp == 16
maskClick == 32
maskDblClick == 64
maskAuxClick == 128
maskWheel == 256
maskTouchStart == 512
maskTouchMove == 1024
maskTouchEnd == 2048
maskTouchCancel == 4096

\* a | b on non-negative ints
RECURSIVE BitOr(_, _)
BitOr(a, b) ==
    IF a = 0 THEN b
    ELSE IF b = 0 THEN a
    ELSE (IF a % 2 = 1 \/ b % 2 = 1 THEN 1 ELSE 0) + 2 * BitOr(a \div 2, b \div 2)

\* the event values an Options value can enable, by the name of their type
ConcreteEvents ==
    { "MouseMoveEvent", "MouseDownEvent", "MouseUpEvent", "KeyDownEvent",
      "KeyUpEvent", "ClickEvent", "DblClickEvent", "AuxClickEvent", "WheelEvent",
      "TouchStartEvent", "TouchMoveEvent", "TouchEndEvent", "TouchCancelEvent" }

EventValues ==
    ConcreteEvents \cup { "CloseEvent", "MouseEvent", "KeyboardEvent", "TouchEvent" }

mask(e) ==
    CASE e = "CloseEvent" -> 0
      [] e = "MouseEvent" ->
            BitOr(maskMouseMove, BitOr(maskMouseUp, BitOr(maskMouseDown,
                BitOr(maskClick, BitOr(maskDblClick, maskAuxClick)))))
      [] e = "MouseMoveEvent" -> maskMouseMove
      [] e = "MouseDownEvent" -> maskMouseDown
      [] e = "MouseUpEvent" -> maskMouseUp
      [] e = "ClickEvent" -> maskClick
      [] e = "DblClickEvent" -> maskDblClick
      [] e = "AuxClickEvent" -> maskAuxClick
      [] e = "WheelEvent" -> maskWheel
      [] e = "KeyboardEvent" -> BitOr(maskKeyDown, maskKeyUp)
      [] e = "KeyDownEvent" -> maskKeyDown
      [] e = "KeyUpEvent" -> maskKeyUp
      [] e = "TouchEvent" ->
            BitOr(maskTouchStart, BitOr(maskTouchMove,
                BitOr(maskTouchEnd, maskTouchCancel)))
      [] e = "TouchStartEvent" -> maskTouchStart
      [] e = "TouchMoveEvent" -> maskTouchMove
      [] e = "TouchEndEvent" -> maskTouchEnd
      [] e = "TouchCancelEvent" -> maskTouchCancel

\* the loop of eventMask with + in place of |
RECURSIVE eventMaskSum(_)
eventMaskSum(enabledEvents) ==
    IF enabledEvents = <<>> THEN 0
    ELSE eventMaskSum(SubSeq(enabledEvents, 1, Len(enabledEvents) - 1))
            + mask(enabledEvents[Len(enabledEvents)])

\* for _, e := range o.EnabledEvents { mask |= e.mask() }, mask starting at 0
RECURSIVE eventMask(_)
eventMask(enabledEvents) ==
    IF enabledEvents = <<>> THEN 0
    ELSE BitOr(eventMask(SubSeq(enabledEvents, 1, Len(enabledEvents) - 1)),
               mask(enabledEvents[Len(enabledEvents)]))

notMask == <<sessionVars, decodeVars, bufVars, genVars, lookups, trips, created,
             ownerVars, sliceVars>>

\* the program appends an event value to Options.EnabledEvents
EnableEvent ==
    /\ Len(opts) < MaxEvents
    /\ \E e \in EventValues : opts' = Append(opts, e)
    /\ UNCHANGED <<maskResult, notMask>>

\* one call o.eventMask()
EventMask ==
    /\ maskResult' = [called |-> TRUE, events |-> opts, mask |-> eventMask(opts)]
    /\ UNCHANGED <<opts, notMask>>

----------------------------------------------------------------------------
(* values written to a fresh buffer and read back (buffer.go) *)

MaxTrips == 2       \* values written and read back in one behaviour
MaxStrLen == 2      \* characters of a string that is written

\* the bytes of a Go string that holds the given characters: their UTF-8
\* encoding
RECURSIVE UTF8(_)
UTF8(chars) ==
    IF chars = <<>> THEN <<>>
    ELSE LET c == Head(chars)
         IN  (IF c < 128 THEN <<c>>
              ELSE IF c < 2048 THEN <<192 + (c \div 64), 128 + (c % 64)>>
              ELSE <<224 + (c \div 4096), 128 + ((c \div 64) % 64), 128 + (c % 64)>>)
             \o UTF8(Tail(chars))

\* the characters a, a-umlaut and the euro sign
Chars == {97, 228, 8364}

CharSeqs == UNION { [1..n -> Chars] : n \in 0..MaxStrLen }

ByteValues == {0, 1, 127, 128, 255}

Uint32Values == {0, 1, 255, 256, 65535, 65536, 16777216, 2147483647}

Float64Values == {0, 1, 2, 3, 10, 255, 1048575}

\* x was written to an empty buffer, which gave the bytes w, and the
\* matching reader called on a buffer of these bytes returned r
Trip(kind, x, chars, w, r) ==
    [kind |-> kind, x |-> x, chars |-> chars, written |-> w, v |-> r.v,
     after |-> r.buf]

notTrips == <<sessionVars, decodeVars, bufVars, genVars, maskVars, lookups, created,
              ownerVars, sliceVars>>

RoundTrip(t) ==
    /\ trips' = Append(trips, t)
    /\ UNCHANGED notTrips

\* addByte, then readByte
RoundTripByte ==
    /\ Len(trips) < MaxTrips
    /\ \E x \in ByteValues :
          RoundTrip(Trip("byte", x, <<>>, addByte(<<>>, x),
                         readByte(newBuffer(addByte(<<>>, x)))))

\* addUint32, then readUint32
RoundTripUint32 ==
    /\ Len(trips) < MaxTrips
    /\ \E x \in Uint32Values :
          RoundTrip(Trip("uint32", x, <<>>, addUint32(<<>>, x),
                         readUint32(newBuffer(addUint32(<<>>, x)))))

\* addFloat64, then readFloat64
RoundTripFloat64 ==
    /\ Len(trips) < MaxTrips
    /\ \E x \in Float64Values :
          RoundTrip(Trip("float64", x, <<>>, addFloat64(<<>>, x),
                         readFloat64(newBuffer(addFloat64(<<>>, x)))))

\* addString, then readString
RoundTripString ==
    /\ Len(trips) < MaxTrips
    /\ \E chars \in CharSeqs :
          RoundTrip(Trip("string", UTF8(chars), chars, addString(<<>>, UTF8(chars)),
                         readString(newBuffer(addString(<<>>, UTF8(chars))))))

----------------------------------------------------------------------------
(* The opcode tables: the draw opcodes (enums.go) and the event types      *)
(* (event.go)                                                              *)

MaxLookups == 2     \* opcodes used in one behaviour

Opcode(op, tag) == [op |-> op, tag |-> tag]

\* the draw opcodes, each with the byte it stands for
DrawOpcodes ==
    { Opcode("bArc", bArc),
      Opcode("bArcTo", bArcTo),
      Opcode("bBeginPath", bBeginPath),
      Opcode("bBezierCurveTo", bBezierCurveTo),
      Opcode("bClearRect", bClearRect),
      Opcode("bClip", bClip),
      Opcode("bClosePath", bClosePath),
      Opcode("bCreateImageData", bCreateImageData),
      Opcode("bCreateLinearGradient", bCreateLinearGradient),
      Opcode("bCreatePattern", bCreatePattern),
      Opcode("bCreateRadialGradient", bCreateRadialGradient),
      Opcode("bDrawImage", bDrawImage),
      Opcode("bEllipse", bEllipse),
      Opcode("bFill", bFill),
      Opcode("bFillRect", bFillRect),
      Opcode("bFillStyle", bFillStyle),
      Opcode("bFillText", bFillText),
      Opcode("bFont", bFont),
      Opcode("bGradientAddColorStop", bGradientAddColorStop),
      Opcode("bGradientAddColorStopString", bGradientAddColorStopString),
      Opcode("bFillStyleGradient", bFillStyleGradient),
      Opcode("bGlobalAlpha", bGlobalAlpha),
      Opcode("bGlobalCompositeOperation", bGlobalCompositeOperation),
      Opcode("bImageSmoothingEnabled", bImageSmoothingEnabled),
      Opcode("bStrokeStyleGradient", bStrokeStyleGradient),
      Opcode("bReleasePattern", bReleasePattern),
      Opcode("bLineCap", bLineCap),
      Opcode("bLineDashOffset", bLineDashOffset),
      Opcode("bLineJoin", bLineJoin),
      Opcode("bLineTo", bLineTo),
      Opcode("bLineWidth", bLineWidth),
      Opcode("bReleaseGradient", bReleaseGradient),
      Opcode("bMiterLimit", bMiterLimit),
      Opcode("bMoveTo", bMoveTo),
      Opcode("bPutImageData", bPutImageData),
      Opcode("bQuadraticCurveTo", bQuadraticCurveTo),
      Opcode("bRect", bRect),
      Opcode("bRestore", bRestore),
      Opcode("bRotate", bRotate),
      Opcode("bSave", bSave),
      Opcode("bScale", bScale),
      Opcode("bSetLineDash", bSetLineDash),
      Opcode("bSetTransform", bSetTransform),
      Opcode("bShadowBlur", bShadowBlur),
      Opcode("bShadowColor", bShadowColor),
      Opcode("bShadowOffsetX", bShadowOffsetX),
      Opcode("bShadowOffsetY", bShadowOffsetY),
      Opcode("bStroke", bStroke),
      Opcode("bStrokeRect", bStrokeRect),
      Opcode("bStrokeStyle", bStrokeStyle),
      Opcode("bStrokeText", bStrokeText),
      Opcode("bTextAlign", bTextAlign),
      Opcode("bTextBaseline", bTextBaseline),
      Opcode("bTransform", bTransform),
      Opcode("bTranslate", bTranslate),
      Opcode("bFillTextMaxWidth", bFillTextMaxWidth),
      Opcode("bStrokeTextMaxWidth", bStrokeTextMaxWidth),
      Opcode("bFillStyleString", bFillStyleString),
      Opcode("bStrokeStyleString", bStrokeStyleString),
      Opcode("bShadowColorString", bShadowColorString),
      Opcode("bPutImageDataDirty", bPutImageDataDirty),
      Opcode("bDrawImageScaled", bDrawImageScaled),
      Opcode("bDrawImageSubRectangle", bDrawImageSubRectangle),
      Opcode("bReleaseImageData", bReleaseImageData),
      Opcode("bFillStylePattern", bFillStylePattern),
      Opcode("bStrokeStylePattern", bStrokeStylePattern),
      Opcode("bGetImageData", bGetImageData) }

\* the event types, each with the byte it stands for
EventTypes ==
    { Opcode("evMouseMove", evMouseMove),
      Opcode("evMouseDown", evMouseDown),
      Opcode("evMouseUp", evMouseUp),
      Opcode("evKeyDown", evKeyDown),
      Opcode("evKeyUp", evKeyUp),
      Opcode("evClick", evClick),
      Opcode("evDblClick", evDblClick),
      Opcode("evAuxClick", evAuxClick),
      Opcode("evWheel", evWheel),
      Opcode("evTouchStart", evTouchStart),
      Opcode("evTouchMove", evTouchMove),
      Opcode("evTouchEnd", evTouchEnd),
      Opcode("evTouchCancel", evTouchCancel) }

notLookups == <<sessionVars, decodeVars, bufVars, genVars, maskVars, trips, created,
                ownerVars, sliceVars>>

\* a drawing call writes its opcode as the first byte of its command
WriteOpcode ==
    /\ Len(lookups) < MaxLookups
    /\ \E o \in DrawOpcodes : lookups' = Append(lookups, o)
    /\ UNCHANGED notLookups

\* decodeEventBuf compares the first byte of a message with an event type
MatchEventType ==
    /\ Len(lookups) < MaxLookups
    /\ \E o \in EventTypes : lookups' = Append(lookups, o)
    /\ UNCHANGED notLookups

----------------------------------------------------------------------------
(* CreateImageData called with source images of several formats, bounds    *)
(* and strides                                                             *)

MaxCreates == 2     \* CreateImageData calls recorded in one behaviour

Origins == { <<0, 0>>, <<1, 0>>, <<0, 1>>, <<1, 1>> }

Sides == {1, 2}

Rects == { [min |-> o, w |-> w, h |-> h] : o \in Origins, w \in Sides, h \in Sides }

\* image.NewGray(r) with the pixels set to 11, 12, ... in row-major order
GrayImage(r) ==
    [format |-> "Gray", min |-> r.min, w |-> r.w, h |-> r.h, Stride |-> r.w,
     Pix |-> [i \in 1 .. r.w * r.h |-> 10 + i]]

\* image.NewRGBA(r) with the bytes of Pix set to 1, 2, ...
RGBAImage(r) ==
    [format |-> "RGBA", min |-> r.min, w |-> r.w, h |-> r.h, Stride |-> 4 * r.w,
     Pix |-> [i \in 1 .. 4 * r.w * r.h |-> i]]

Whole == [min |-> <<0, 0>>, w |-> 2, h |-> 2]

\* the rectangles inside Whole other than Whole
SubRects ==
    { r \in Rects : r # Whole /\ r.min[1] + r.w <= 2 /\ r.min[2] + r.h <= 2 }

SourceImages ==
    { GrayImage(r) : r \in Rects } \cup { RGBAImage(r) : r \in Rects }
    \cup { SubImage(GrayImage(Whole), r) : r \in SubRects }
    \cup { SubImage(RGBAImage(Whole), r) : r \in SubRects }

notCreated == <<sessionVars, decodeVars, bufVars, genVars, maskVars, lookups, trips,
                ownerVars, sliceVars>>

\* one call ctx.CreateImageData(m) on a Context that has issued no command yet
CreateImageDataFrom ==
    /\ Len(created) < MaxCreates
    /\ \E m \in SourceImages :
          created' = Append(created,
                            [m |-> m, cmd |-> Context_CreateImageData(<<>>, 0, m).buf])
    /\ UNCHANGED notCreated

----------------------------------------------------------------------------
(* Handles of several Contexts: the creating calls and the calls made      *)
(* through a handle, which reach the buffer by the handle's ctx field      *)

NumContexts == 2    \* Contexts that exist side by side
MaxOwnCalls == 3    \* calls made on the Contexts and their handles

Contexts == 1..NumContexts

\* a handle whose ctx field is the first Context, whoever created it
HandleOfFirst(kind, id, ctx) ==
    [kind |-> kind, id |-> id, ctx |-> 1, released |-> FALSE]

\* &ImageData{id: id, ctx: ctx, ...}, &Gradient{id: id, ctx: ctx},
\* &Pattern{id: id, ctx: ctx}
Handle(kind, id, ctx) ==
    [kind |-> kind, id |-> id, ctx |-> ctx, released |-> FALSE]

notOwner == <<sessionVars, decodeVars, bufVars, genVars, maskVars, lookups, trips,
              created, sliceVars>>

\* bookkeeping of one call that was made on Context c, or through handle
\* number h, and ends with nb in the buffer of Context c and panic value f
OwnCall(op, c, h, nb, f) ==
    /\ lastOwn.n < MaxOwnCalls
    /\ cbuf' = [cbuf EXCEPT ![c] = nb]
    /\ lastOwn' = [op |-> op, ctx |-> c, h |-> h, n |-> lastOwn.n + 1,
                   before |-> cbuf, fault |-> f]
    /\ UNCHANGED notOwner

\* a creating call on Context c that took the ID g from the generator of
\* the kind and returns a handle; on: history, the Context that was called
OwnCreate(op, c, kind, nb, g) ==
    /\ OwnCall(op, c, Len(handles) + 1, nb, NoFault)
    /\ handles' = Append(handles, [h |-> Handle(kind, g.id, c), on |-> c])
    /\ cnext' = [cnext EXCEPT ![c][kind] = g.next]

CreateImageDataOn(c) ==
    \E m \in Images :
        LET r == Context_CreateImageData(cbuf[c], cnext[c].ImageData, m)
        IN  OwnCreate("CreateImageData", c, "ImageData", r.buf,
                      [id |-> r.h.id, next |-> r.next])

GetImageDataOn(c) ==
    \E sx \in Floats :
        LET g == generateID(cnext[c].ImageData)
        IN  OwnCreate("GetImageData", c, "ImageData",
                      addFloats(addUint32(addByte(cbuf[c], bGetImageData), g.id),
                                <<sx, sx, sx + 1, sx + 2>>),
                      g)

CreateLinearGradientOn(c) ==
    \E x0 \in Floats :
        LET g == generateID(cnext[c].Gradient)
        IN  OwnCreate("CreateLinearGradient", c, "Gradient",
                      addFloats(addUint32(addByte(cbuf[c], bCreateLinearGradient), g.id),
                                <<x0, x0, x0 + 1, x0 + 1>>),
                      g)

CreateRadialGradientOn(c) ==
    \E x0 \in Floats :
        LET g == generateID(cnext[c].Gradient)
        IN  OwnCreate("CreateRadialGradient", c, "Gradient",
                      addFloats(addUint32(addByte(cbuf[c], bCreateRadialGradient), g.id),
                                <<x0, x0, 1, x0 + 1, x0 + 1, 2>>),
                      g)

\* the source image may be a handle of any Context
CreatePatternOn(c) ==
    \E i \in DOMAIN handles :
        LET r == Context_CreatePattern(cbuf[c], cnext[c].Pattern, handles[i].h, 1)
        IN  /\ handles[i].h.kind = "ImageData"
            /\ IF r.fault = NoFault
               THEN OwnCreate("CreatePattern", c, "Pattern", r.buf,
                              [id |-> r.id, next |-> r.next])
               ELSE /\ OwnCall("CreatePattern", c, 0, r.buf, r.fault)
                    /\ UNCHANGED <<handles, cnext>>

\* m.Release(), g.Release(), p.Release(): the buffer is m.ctx.buf
ReleaseThrough(i) ==
    LET h == handles[i].h
        r == CASE h.kind = "ImageData" -> ImageData_Release(cbuf[h.ctx], h)
               [] h.kind = "Gradient" -> Gradient_Release(cbuf[h.ctx], h)
               [] h.kind = "Pattern" -> Pattern_Release(cbuf[h.ctx], h)
    IN  /\ OwnCall("Release", h.ctx, i, r.buf, NoFault)
        /\ handles' = [handles EXCEPT ![i].h = r.h]
        /\ UNCHANGED cnext

\* g.AddColorStop(offset, c): the buffer is g.ctx.buf
AddColorStopThrough(i) ==
    \E offset \in Floats, c \in Colors :
        LET h == handles[i].h
            r == Gradient_AddColorStop(cbuf[h.ctx], h, offset, c)
        IN  /\ h.kind = "Gradient"
            /\ OwnCall("AddColorStop", h.ctx, i, r.buf, r.fault)
            /\ UNCHANGED <<handles, cnext>>

\* g.AddColorStopString(offset, color): the buffer is g.ctx.buf
AddColorStopStringThrough(i) ==
    \E offset \in Floats, color \in ColorStrings :
        LET h == handles[i].h
            r == Gradient_AddColorStopString(cbuf[h.ctx], h, offset, color)
        IN  /\ h.kind = "Gradient"
            /\ OwnCall("AddColorStopString", h.ctx, i, r.buf, r.fault)
            /\ UNCHANGED <<handles, cnext>>

----------------------------------------------------------------------------
(* Flush and the storage of buf.bytes.  A slice is a header [arr, len]     *)
(* into a backing array of heap; arr = 0 is the nil slice.  buffer.go has  *)
(* two definitions of buffer.reset; resetDef says which one is compiled.   *)

MaxSliceFlushes == 2    \* Flush calls in one behaviour
MaxSliceLen == 2        \* bytes appended to buf.bytes between two flushes

ResetMake == "buffer.go:105"
ResetTruncate == "buffer.go:168"

NilSlice == [arr |-> 0, len |-> 0]

\* cap(s)
Cap(h, s) == IF s.arr = 0 THEN 0 ELSE Len(h[s.arr])

\* the bytes s[0:len(s)]
Contents(h, s) == IF s.arr = 0 THEN <<>> ELSE SubSeq(h[s.arr], 1, s.len)

Zeros(n) == [i \in 1..n |-> 0]

\* the capacity append chooses when the array is full (doubling, without
\* the rounding to size classes)
GrowCap(old, needed) == IF needed > 2 * old THEN needed ELSE 2 * old

\* append(s, x): in place when the capacity allows it, otherwise into a new
\* array that receives a copy
Slice_append(h, s, x) ==
    IF s.len < Cap(h, s)
    THEN [heap |-> [h EXCEPT ![s.arr][s.len + 1] = x],
          s |-> [arr |-> s.arr, len |-> s.len + 1]]
    ELSE [heap |-> Append(h, Contents(h, s) \o <<x>>
                                \o Zeros(GrowCap(Cap(h, s), s.len + 1) - s.len - 1)),
          s |-> [arr |-> Len(h) + 1, len |-> s.len + 1]]

\* buffer.reset with make([]byte, 0, cap(buf.bytes)): a new array
reset_make(h, s) ==
    [heap |-> Append(h, Zeros(Cap(h, s))), s |-> [arr |-> Len(h) + 1, len |-> 0]]

\* buffer.reset with buf.bytes[:0]: the same array
reset_truncate(h, s) == [heap |-> h, s |-> [arr |-> s.arr, len |-> 0]]

\* bytes the run function appends
SliceBytes == {bBeginPath, bFill}

notSlice == <<sessionVars, decodeVars, bufVars, genVars, maskVars, lookups, trips,
              created, ownerVars>>

\* a drawing call: ctx.buf.addByte(b)
SliceAddByte ==
    /\ fPc = "idle"
    /\ bytes.len < MaxSliceLen
    /\ \E b \in SliceBytes :
          LET r == Slice_append(heap, bytes, b)
          IN  heap' = r.heap /\ bytes' = r.s
    /\ UNCHANGED <<resetDef, message, fPc, mPc, handed, wrote, notSlice>>

\* Flush: ctx.draws <- ctx.buf.bytes meets message := <-messages
SliceFlushSend ==
    /\ fPc = "idle"
    /\ mPc = "recv"
    /\ Len(handed) < MaxSliceFlushes
    /\ message' = bytes
    /\ handed' = Append(handed, Contents(heap, bytes))
    /\ fPc' = "reset"
    /\ mPc' = "write"
    /\ UNCHANGED <<resetDef, heap, bytes, wrote, notSlice>>

\* Flush: ctx.buf.reset() and return
SliceFlushReset ==
    /\ fPc = "reset"
    /\ LET r == IF resetDef = ResetMake
                THEN reset_make(heap, bytes)
                ELSE reset_truncate(heap, bytes)
       IN  heap' = r.heap /\ bytes' = r.s
    /\ fPc' = "idle"
    /\ UNCHANGED <<resetDef, message, mPc, handed, wrote, notSlice>>

\* writeMessages: conn.WriteMessage(websocket.BinaryMessage, message) reads
\* the bytes of the message
SliceWriteMessage ==
    /\ mPc = "write"
    /\ wrote' = Append(wrote, Contents(heap, message))
    /\ mPc' = "recv"
    /\ UNCHANGED <<resetDef, heap, bytes, message, fPc, handed, notSlice>>

----------------------------------------------------------------------------
(* Specifications *)

SessionInit ==
    /\ buf = <<>>
    /\ imageDataIDs = 0
    /\ gradientIDs = 0
    /\ patternIDs = 0
    /\ imgs = <<>>
    /\ grads = <<>>
    /\ pats = <<>>
    /\ fault = NoFault
    /\ flushed = <<>>
    /\ pending = <<>>
    /\ flushedCmds = <<>>
    /\ releaseCalls = [ImageData |-> <<>>, Gradient |-> <<>>, Pattern |-> <<>>]
    /\ last = [op |-> "none", kind |-> "none", h |-> 0, wasReleased |-> FALSE,
               bufBefore |-> <<>>]
    /\ calls = 0
    /\ hPc = "wait1"
    /\ rPc = "read"
    /\ wPc = "recv"
    /\ runPc = "idle"
    /\ wg = 2
    /\ conn = "open"
    /\ evMsg = NilEvent
    /\ wMsg = <<>>
    /\ drawsClosed = FALSE
    /\ eventsClosed = FALSE
    /\ crashed = NoFault
    /\ reads = 0
    /\ decoded = <<>>
    /\ decodeErr = NoError
    /\ decodeFaults = 0
    /\ received = <<>>
    /\ written = <<>>
    /\ messageType = "none"
    /\ flushReturns = 0

DecodeIdle == results = <<>>

BufferIdle == rbuf = newBuffer(<<>>) /\ readLog = <<>>

GenInit ==
    /\ gNext = 0
    /\ nextMu = 0
    /\ gPc = [g \in Goroutines |-> "idle"]
    /\ gId = [g \in Goroutines |-> 0]
    /\ gTmp = [g \in Goroutines |-> 0]
    /\ issued = <<>>

MaskInit ==
    /\ opts = <<>>
    /\ maskResult = [called |-> FALSE, events |-> <<>>, mask |-> 0]

OpcodeInit == lookups = <<>>

RoundTripInit == trips = <<>>

ImageInit == created = <<>>

OwnerInit ==
    /\ cbuf = [c \in Contexts |-> <<>>]
    /\ cnext = [c \in Contexts |-> [ImageData |-> 0, Gradient |-> 0, Pattern |-> 0]]
    /\ handles = <<>>
    /\ lastOwn = [op |-> "none", ctx |-> 0, h |-> 0, n |-> 0, before |-> cbuf,
                  fault |-> NoFault]

\* no slice allocated yet, nothing flushed
SliceStart ==
    /\ heap = <<>>
    /\ bytes = NilSlice
    /\ message = NilSlice
    /\ fPc = "idle"
    /\ mPc = "recv"
    /\ handed = <<>>
    /\ wrote = <<>>

SliceIdle == resetDef = ResetMake /\ SliceStart

PureInit ==
    MaskInit /\ OpcodeInit /\ RoundTripInit /\ ImageInit /\ OwnerInit /\ SliceIdle

Init == SessionInit /\ DecodeIdle /\ BufferIdle /\ GenInit /\ PureInit

\* the calls of one Context
Next ==
    \/ BeginPath
    \/ CreateImageData
    \/ GetImageData
    \/ CreateLinearGradient
    \/ CreateRadialGradient
    \/ CreatePattern
    \/ PutImageData
    \/ PutImageDataDirty
    \/ DrawImage
    \/ DrawImageScaled
    \/ DrawImageSubRectangle
    \/ AddColorStop
    \/ AddColorStopString
    \/ SetFillStyleGradient
    \/ SetStrokeStyleGradient
    \/ SetFillStylePattern
    \/ SetStrokeStylePattern
    \/ ReleaseImageData
    \/ ReleaseGradient
    \/ ReleasePattern
    \/ Flush

Spec == Init /\ [][Next]_vars

HandlerStep == Wait1 \/ Add1 \/ CloseHandoff \/ Wait2 \/ CloseDraws \/ CloseEvents

ReaderStep == ReadMessage \/ ReadError \/ EventHandoff

WriterStep == DrawHandoff \/ WriteMessage

RunStep ==
    \/ RunReceive \/ EventHandoff \/ CloseHandoff
    \/ RunDraw \/ RunFlush \/ DrawHandoff \/ FlushReturn \/ RunReturn

\* the steps of one session
ServeNext ==
    \/ ConnClose
    \/ ReadMessage
    \/ ReadError
    \/ RunReceive
    \/ EventHandoff
    \/ CloseHandoff
    \/ RunDraw
    \/ RunFlush
    \/ DrawHandoff
    \/ FlushReturn
    \/ RunReturn
    \/ WriteMessage
    \/ Wait1
    \/ Add1
    \/ Wait2
    \/ CloseDraws
    \/ CloseEvents

ServeSpec == Init /\ [][ServeNext]_vars

\* every goroutine that can take a step eventually takes one
ServeFairSpec ==
    /\ ServeSpec
    /\ WF_vars(HandlerStep)
    /\ WF_vars(ReaderStep)
    /\ WF_vars(WriterStep)
    /\ WF_vars(RunStep)

\* decodeEvent called on messages of every shape
DecodeNext == DecodeEvent

DecodeSpec == Init /\ [][DecodeNext]_vars

\* a buffer made from some bytes, then read primitives in any order
BufferInit ==
    /\ SessionInit /\ DecodeIdle /\ GenInit /\ PureInit
    /\ rbuf \in { newBuffer(b) : b \in InitialBytes }
    /\ readLog = <<>>

BufferNext ==
    \/ ReadByte
    \/ ReadUint32
    \/ ReadUint64
    \/ ReadFloat64
    \/ ReadString

BufferSpec == BufferInit /\ [][BufferNext]_vars

\* goroutines calling generateID of one generator
GenNext ==
    \E g \in Goroutines :
        \/ generateID_Call(g)
        \/ ReadNext(g)
        \/ LoadNext(g)
        \/ StoreNext(g)
        \/ ReturnID(g)

GenSpec == Init /\ [][GenNext]_vars

\* goroutines calling GenerateID of one generator
GenMutexNext ==
    \E g \in Goroutines :
        \/ GenerateID_Lock(g)
        \/ ReadNext(g)
        \/ LoadNext(g)
        \/ StoreNext(g)
        \/ ReturnID(g)

GenMutexSpec == Init /\ [][GenMutexNext]_vars

\* one Options value that is filled and asked for its mask
MaskNext == EnableEvent \/ EventMask

MaskSpec == Init /\ [][MaskNext]_vars

\* values written to a fresh buffer and read back
RoundTripNext ==
    \/ RoundTripByte
    \/ RoundTripUint32
    \/ RoundTripFloat64
    \/ RoundTripString

RoundTripSpec == Init /\ [][RoundTripNext]_vars

\* opcodes written by drawing calls and matched by the event decoder
OpcodeNext == WriteOpcode \/ MatchEventType

OpcodeSpec == Init /\ [][OpcodeNext]_vars

\* CreateImageData calls with source images of several formats and bounds
ImageNext == CreateImageDataFrom

ImageSpec == Init /\ [][ImageNext]_vars

\* calls on several Contexts and through their handles
OwnerNext ==
    \/ \E c \in Contexts : CreateImageDataOn(c)
    \/ \E c \in Contexts : GetImageDataOn(c)
    \/ \E c \in Contexts : CreateLinearGradientOn(c)
    \/ \E c \in Contexts : CreateRadialGradientOn(c)
    \/ \E c \in Contexts : CreatePatternOn(c)
    \/ \E i \in DOMAIN handles : ReleaseThrough(i)
    \/ \E i \in DOMAIN handles : AddColorStopThrough(i)
    \/ \E i \in DOMAIN handles : AddColorStopStringThrough(i)

OwnerSpec == Init /\ [][OwnerNext]_vars

SliceInit ==
    /\ SessionInit /\ DecodeIdle /\ BufferIdle /\ GenInit
    /\ MaskInit /\ OpcodeInit /\ RoundTripInit /\ ImageInit /\ OwnerInit
    /\ resetDef \in {ResetMake, ResetTruncate}
    /\ SliceStart

SliceNext == SliceAddByte \/ SliceFlushSend \/ SliceFlushReset \/ SliceWriteMessage

\* Flush, later drawing calls and writeMessages over shared storage, with
\* either definition of buffer.reset
SliceSpec == SliceInit /\ [][SliceNext]_vars

----------------------------------------------------------------------------
(* Claims *)

CloseDelivered == \E i \in DOMAIN received : received[i] = CloseEvent

\* C1: after the connection is closed, a run function blocked receiving from
\* Events() eventually receives CloseEvent: it does not stay blocked in the
\* receive forever without CloseEvent having been delivered.
C1_CloseEventDelivered ==
    []<>(CloseDelivered \/ crashed # NoFault \/ ~(conn = "closed" /\ runPc = "recv"))

FaultOf(kind) ==
    CASE kind = "ImageData" -> ImageDataFault
      [] kind = "Gradient" -> GradientFault
      [] kind = "Pattern" -> PatternFault
      [] OTHER -> NoFault

\* C2: every drawing call that references a handle on which Release has been
\* called panics with "<Kind>: use after release".
C2_UseAfterReleaseFaults ==
    (last.op \in UseOps /\ last.wasReleased) => fault = FaultOf(last.kind)

\* C3: a call that faulted with use-after-release left the buffer exactly as
\* it was before the call; nothing of the faulted command was appended.
C3_FaultLeavesBuffer ==
    fault # NoFault => (buf = last.bufBefore /\ buf = Flatten(pending))

C3_Witness ==
    /\ fault \in {ImageDataFault, GradientFault}
    /\ buf # <<>>
    /\ buf = last.bufBefore

\* the commands of the whole output stream: flushed messages, then the buffer
AllCmds == Flatten(flushedCmds) \o pending

ReleaseCmd(opcode, id) == <<opcode>> \o PutUint32(id)

\* C4: for an ImageData or Gradient handle with n >= 1 Release calls the
\* output stream holds its release command exactly once, and a Release on an
\* already released handle changes neither the buffer nor the handle.
C4_ReleaseIdempotent ==
    /\ Flatten(AllCmds) = Flatten(flushed) \o buf
    /\ \A i \in DOMAIN imgs :
          releaseCalls.ImageData[i] >= 1 =>
              CountCmd(ReleaseCmd(bReleaseImageData, imgs[i].id), AllCmds) = 1
    /\ \A i \in DOMAIN grads :
          releaseCalls.Gradient[i] >= 1 =>
              CountCmd(ReleaseCmd(bReleaseGradient, grads[i].id), AllCmds) = 1
    /\ (last.op = "Release" /\ last.wasReleased /\ last.kind = "ImageData") =>
          (buf = last.bufBefore /\ imgs[last.h].released)
    /\ (last.op = "Release" /\ last.wasReleased /\ last.kind = "Gradient") =>
          (buf = last.bufBefore /\ grads[last.h].released)

C4_Witness ==
    /\ last.op = "Release"
    /\ last.kind = "ImageData"
    /\ last.wasReleased
    /\ releaseCalls.ImageData[last.h] >= 2

\* C5: no message, flushed or accumulated for the next Flush, holds the
\* releasePattern command of one pattern more than once, however often
\* Release was called on the pattern.
C5_PatternReleaseIdempotent ==
    \A i \in DOMAIN pats :
        /\ CountCmd(ReleaseCmd(bReleasePattern, pats[i].id), pending) <= 1
        /\ \A k \in DOMAIN flushedCmds :
              CountCmd(ReleaseCmd(bReleasePattern, pats[i].id), flushedCmds[k]) <= 1

\* C6: every flushed message is the concatenation, in call order, of the
\* encodings of the commands appended since the previous Flush, the buffer
\* holds exactly the commands appended since the last Flush, and it is
\* empty when Flush has returned.
C6_FlushMessage ==
    /\ Len(flushed) = Len(flushedCmds)
    /\ \A k \in DOMAIN flushed : flushed[k] = Flatten(flushedCmds[k])
    /\ buf = Flatten(pending)
    /\ last.op = "Flush" => (buf = <<>> /\ flushed[Len(flushed)] = last.bufBefore)

C6_Witness ==
    /\ Len(flushed) = 2
    /\ flushed[1] # <<>>
    /\ flushed[2] # <<>>
    /\ last.op = "Flush"

\* C7: every Flush that returned handed exactly one message to the outbound
\* channel; when nothing was appended since the previous Flush the message
\* is empty.
C7_FlushAlwaysSends ==
    /\ Len(flushed) = flushReturns
    /\ (last.op = "Flush" /\ last.bufBefore = <<>>) => flushed[Len(flushed)] = <<>>

C7_Witness ==
    /\ flushReturns >= 2
    /\ last.op = "Flush"
    /\ last.bufBefore = <<>>
    /\ flushed[Len(flushed)] = <<>>

\* C8: the messages handed to the outbound channel change only in Flush; no
\* drawing, resource-creating or Release call sends anything.
C8_OnlyFlushSends ==
    [][flushed' # flushed => last'.op = "Flush"]_vars

C8_Witness ==
    /\ flushed = <<>>
    /\ Len(pending) >= 3
    /\ last.op = "Release"

\* C9: the messages passed to conn.WriteMessage are, in order, the messages
\* of the Flush calls; only the message writeMessages holds is outstanding.
C9_WriteOrder ==
    flushed = written \o (IF wPc = "write" THEN <<wMsg>> ELSE <<>>)

C9_Witness ==
    /\ Len(written) >= 3
    /\ written[1] # written[2]
    /\ written[2] # written[3]

WireEvents == SelectSeq(received, LAMBDA e : e.type \notin {"CloseEvent", "nil"})

\* C10: the events the run function received from the wire are, in order,
\* the events readMessages decoded; only the event it holds is outstanding.
C10_EventOrder ==
    decoded = WireEvents \o (IF rPc = "send" THEN <<evMsg>> ELSE <<>>)

C10_Witness ==
    /\ Len(WireEvents) >= 2
    /\ WireEvents[1] # WireEvents[2]
    /\ reads > Len(decoded)

\* C11: readMessages reads the next message from the connection only when
\* every event it decoded so far has been received by the run function: a
\* decoded event is never dropped or overwritten, and while the run function
\* is not receiving the reader stays blocked on the handoff.
C11_ReadWaitsForHandoff ==
    [][reads' # reads => (rPc = "read" /\ decoded = WireEvents)]_vars

\* the reader holds a decoded event while the run function is busy elsewhere
C11_Witness ==
    /\ rPc = "send"
    /\ runPc \in {"idle", "flush", "reset"}
    /\ conn = "open"
    /\ reads < MaxReads
    /\ Len(decoded) = Len(WireEvents) + 1

\* C12: CloseEvent is received at most once, only after readMessages and
\* writeMessages have both ended, and nothing is received after it.
C12_CloseEventLast ==
    \A i \in DOMAIN received :
        received[i] = CloseEvent =>
            /\ i = Len(received)
            /\ rPc = "done"
            /\ wPc = "done"

\* CloseEvent was received after an event from the wire
C12_Witness ==
    /\ Len(received) >= 2
    /\ received[Len(received)] = CloseEvent
    /\ received[1] # CloseEvent

\* C13: a binary message that fails to decode delivers no event and leaves
\* readMessages in its loop, ready to read the next message; nothing panics
\* and the WaitGroup is untouched.
C13_DecodeFaultNotFatal ==
    [][decodeFaults' > decodeFaults
        => /\ decodeErr' # NoError
           /\ rPc' = "read"
           /\ decoded' = decoded
           /\ evMsg' = evMsg
           /\ received' = received
           /\ crashed' = NoFault
           /\ wg' = wg]_vars

\* after a message that failed to decode, the event of a later well-formed
\* message was decoded and received by the run function
C13_Witness ==
    /\ decodeFaults >= 1
    /\ decodeErr = NoError
    /\ decoded # <<>>
    /\ WireEvents = decoded

\* C14: a message whose first byte b is no event type decodes to the nil
\* event and the unknown-event-type error that carries b, whatever bytes
\* follow b.
C14_UnknownEventType ==
    \A i \in DOMAIN results :
        (results[i].p # <<>> /\ results[i].p[1] \notin KnownEventTypes)
            => /\ results[i].event = [type |-> "nil"]
               /\ results[i].err = [kind |-> "unknown event type",
                                    unknownType |-> results[i].p[1]]

\* a message of unknown type with bytes after the type byte was decoded
C14_Witness ==
    \E i \in DOMAIN results :
        /\ Len(results[i].p) > 1
        /\ results[i].p[1] = 250
        /\ results[i].err.kind = "unknown event type"

\* message p is a known event type followed by a strict prefix of a
\* well-formed payload of that type
IsTruncated(p) ==
    /\ p # <<>>
    /\ p[1] \in KnownEventTypes
    /\ Tail(p) \in StrictPrefixes(Payload(p[1]))

\* C15: a known event type followed by a strict prefix of a well-formed
\* payload decodes to the nil event and the buffer's data-too-short error,
\* which differs from every unknown-event-type error.
C15_DataTooShort ==
    \A i \in DOMAIN results :
        IsTruncated(results[i].p)
            => /\ results[i].event = [type |-> "nil"]
               /\ results[i].err = [kind |-> "data too short"]
               /\ \A b \in 0..255 : results[i].err # ErrUnknownEventType(b)

\* a touch event cut inside its first touch list, or a keyboard event cut
\* inside the key name, was decoded
C15_Witness ==
    \E i \in DOMAIN results :
        /\ IsTruncated(results[i].p)
        /\ \/ results[i].p[1] = evTouchMove /\ Len(results[i].p) = 8
           \/ results[i].p[1] = evKeyDown /\ Len(results[i].p) = 7
        /\ results[i].err.kind = "data too short"

\* C16: a read made on a buffer whose error is set returns the zero value,
\* leaves the bytes empty and the error set; a buffer with the error set has
\* no bytes.
C16_ErrorSticks ==
    /\ rbuf.error # NoError => rbuf.bytes = <<>>
    /\ \A i \in DOMAIN readLog :
          readLog[i].before.error # NoError
              => /\ readLog[i].v = Zero(readLog[i].op)
                 /\ readLog[i].after.bytes = <<>>
                 /\ readLog[i].after.error = [kind |-> "data too short"]

\* a short read on a buffer that still had bytes, then two more reads
C16_Witness ==
    /\ Len(readLog) = 3
    /\ readLog[1].before.bytes # <<>>
    /\ readLog[1].after.error # NoError
    /\ readLog[2].op # readLog[3].op
    /\ readLog[3].op = "readString"

\* the bytes a read primitive needs from the byte sequence b
Needs(op, b) ==
    CASE op = "readByte" -> 1
      [] op = "readUint32" -> 4
      [] op \in {"readUint64", "readFloat64"} -> 8
      [] op = "readString" -> IF Len(b) < 4 THEN 4 ELSE 4 + Uint32(b)

\* C17: a read primitive given fewer bytes than it needs sets the
\* data-too-short error, returns the zero value and leaves the buffer empty.
C17_ShortRead ==
    \A i \in DOMAIN readLog :
        Len(readLog[i].before.bytes) < Needs(readLog[i].op, readLog[i].before.bytes)
            => /\ readLog[i].after.error = [kind |-> "data too short"]
               /\ readLog[i].v = Zero(readLog[i].op)
               /\ readLog[i].after.bytes = <<>>

\* readString found its length but fewer bytes than announced, on a buffer
\* without error
C17_Witness ==
    \E i \in DOMAIN readLog :
        /\ readLog[i].op = "readString"
        /\ readLog[i].before.error = NoError
        /\ Len(readLog[i].before.bytes) >= 4
        /\ Len(readLog[i].before.bytes) < Needs("readString", readLog[i].before.bytes)
        /\ readLog[i].after.error # NoError

\* C18: the k-th handle created of a kind has ID k (from 0), and the counter
\* of each kind counts the handles of that kind only.
C18_IDsInCreationOrder ==
    /\ \A k \in DOMAIN imgs : imgs[k].id = k - 1
    /\ \A k \in DOMAIN grads : grads[k].id = k - 1
    /\ \A k \in DOMAIN pats : pats[k].id = k - 1
    /\ imageDataIDs = Len(imgs)
    /\ gradientIDs = Len(grads)
    /\ patternIDs = Len(pats)

\* three image data handles and a handle of another kind exist
C18_Witness ==
    /\ Len(imgs) = 3
    /\ imgs[3].id = 2
    /\ Len(grads) + Len(pats) = 1

PairwiseDistinctIDs(hs) ==
    \A i, j \in DOMAIN hs : i # j => hs[i].id # hs[j].id

\* C19: all IDs handed out for one kind are pairwise distinct, whatever
\* Release and Flush calls were made in between.
C19_IDsNeverReused ==
    /\ PairwiseDistinctIDs(imgs)
    /\ PairwiseDistinctIDs(grads)
    /\ PairwiseDistinctIDs(pats)

\* an image data handle was created after a Release of the first one and a
\* Flush
C19_Witness ==
    /\ calls = 4
    /\ last.op \in {"CreateImageData", "GetImageData"}
    /\ Len(imgs) = 2
    /\ releaseCalls["ImageData"][1] > 0
    /\ flushed # <<>>

\* C20: no two calls of the generator made by concurrent goroutines return
\* the same ID.
C20_NoDuplicateIDs ==
    \A i, j \in DOMAIN issued : i # j => issued[i] # issued[j]

\* the concrete variants an enabled event value stands for
Variants(e) ==
    CASE e = "CloseEvent" -> {}
      [] e = "MouseEvent" ->
            { "MouseMoveEvent", "MouseDownEvent", "MouseUpEvent", "ClickEvent",
              "DblClickEvent", "AuxClickEvent" }
      [] e = "KeyboardEvent" -> { "KeyDownEvent", "KeyUpEvent" }
      [] e = "TouchEvent" ->
            { "TouchStartEvent", "TouchMoveEvent", "TouchEndEvent",
              "TouchCancelEvent" }
      [] OTHER -> {e}

RECURSIVE SumOfMasks(_)
SumOfMasks(S) ==
    IF S = {} THEN 0
    ELSE LET c == CHOOSE x \in S : TRUE IN mask(c) + SumOfMasks(S \ {c})

\* C21: every concrete event variant has a mask of exactly one bit, no two
\* variants have the same bit, and the mask returned by eventMask has
\* exactly the bits of the variants that the enabled event values stand
\* for: none for no events and for CloseEvent, the six mouse bits for
\* MouseEvent, the two key bits for KeyboardEvent, the four touch bits for
\* TouchEvent.
C21_EventMask ==
    /\ \A c \in ConcreteEvents : mask(c) \in { Pow2(i) : i \in 0..12 }
    /\ \A c, d \in ConcreteEvents : mask(c) = mask(d) => c = d
    /\ maskResult.called =>
          maskResult.mask =
              SumOfMasks(UNION { Variants(maskResult.events[i]) :
                                    i \in 1..Len(maskResult.events) })

C21_Witness ==
    /\ maskResult.called
    /\ maskResult.events = <<"MouseEvent", "MouseMoveEvent">>
    /\ maskResult.mask = 231

\* the big-endian uint32 at p[i..i+3]
BE32(p, i) == ((p[i] * 256 + p[i + 1]) * 256 + p[i + 2]) * 256 + p[i + 3]

\* the event variant that belongs to an event type byte
VariantOf(b) ==
    CASE b = 1 -> "MouseMoveEvent" [] b = 2 -> "MouseDownEvent"
      [] b = 3 -> "MouseUpEvent" [] b = 4 -> "KeyDownEvent"
      [] b = 5 -> "KeyUpEvent" [] b = 6 -> "ClickEvent"
      [] b = 7 -> "DblClickEvent" [] b = 8 -> "AuxClickEvent"
      [] b = 9 -> "WheelEvent" [] b = 10 -> "TouchStartEvent"
      [] b = 11 -> "TouchMoveEvent" [] b = 12 -> "TouchEndEvent"
      [] b = 13 -> "TouchCancelEvent"

\* buttons byte, X, Y, modifier byte at p[i..i+9]
MouseAt(p, i) ==
    [Buttons |-> p[i], X |-> BE32(p, i + 1), Y |-> BE32(p, i + 5), Mod |-> p[i + 9]]

\* the float64 that p[i..i+7] encodes: a value whose encoding these bytes
\* are, or the bit pattern itself for a value outside the modelled floats
Float64At(p, i) ==
    IF \E f \in 0..16 : Float64bits(f) = SubSeq(p, i, i + 7)
    THEN CHOOSE f \in 0..16 : Float64bits(f) = SubSeq(p, i, i + 7)
    ELSE [bits |-> SubSeq(p, i, i + 7)]

WellFormedMouse(p) ==
    Len(p) = 11 /\ p[1] \in {evMouseMove, evMouseDown, evMouseUp, evClick, evDblClick,
                             evAuxClick}

WellFormedKeyboard(p) ==
    /\ Len(p) >= 6
    /\ p[1] \in {evKeyDown, evKeyUp}
    /\ Len(p) = 6 + BE32(p, 3)

WellFormedWheel(p) == Len(p) = 36 /\ p[1] = evWheel

Decoded(c, e) == c.err = NoError /\ c.event = [type |-> VariantOf(c.p[1]), e |-> e]

C22_Holds(c) ==
    /\ WellFormedMouse(c.p) => Decoded(c, MouseAt(c.p, 2))
    /\ WellFormedKeyboard(c.p) =>
          Decoded(c, [Mod |-> c.p[2], Key |-> SubSeq(c.p, 7, Len(c.p))])
    /\ WellFormedWheel(c.p) =>
          Decoded(c, [MouseEvent |-> MouseAt(c.p, 2), DeltaX |-> Float64At(c.p, 12),
                      DeltaY |-> Float64At(c.p, 20), DeltaZ |-> Float64At(c.p, 28),
                      DeltaMode |-> c.p[36]])

\* C22: decodeEvent of a well-formed mouse, keyboard or wheel message
\* returns no error and the variant of the message's first byte, with
\* Buttons, X, Y, Mod taken from bytes 2, 3..6, 7..10, 11 (mouse family),
\* Mod and Key from byte 2 and the bytes after the 4-byte length (keyboard
\* family), and for the wheel the mouse fields followed by DeltaX, DeltaY,
\* DeltaZ from the three 8-byte values and DeltaMode from the last byte.
C22_DecodeWellFormed == \A i \in 1..Len(results) : C22_Holds(results[i])

C22_Witness ==
    /\ \E i \in 1..Len(results) :
          /\ results[i].p = <<evWheel>> \o WheelPayloadB
          /\ results[i].event.e.DeltaY = 3
          /\ results[i].event.e.MouseEvent.X = 256

\* the index of the count byte of the second and third list, and of the
\* modifier byte, of a touch message
Changed(p) == 3 + 12 * p[2]
Target(p) == Changed(p) + 1 + 12 * p[Changed(p)]
Modifier(p) == Target(p) + 1 + 12 * p[Target(p)]

TouchAt(p, i) == [Identifier |-> BE32(p, i), X |-> BE32(p, i + 4), Y |-> BE32(p, i + 8)]

\* the n touches that start at p[i]
TouchListAt(p, i, n) == [k \in 1..n |-> TouchAt(p, i + 12 * (k - 1))]

\* a touch message that holds its three lists and the modifier byte
WellFormedTouch(p) ==
    /\ Len(p) >= 5
    /\ p[1] \in {evTouchStart, evTouchMove, evTouchEnd, evTouchCancel}
    /\ Changed(p) <= Len(p)
    /\ Target(p) <= Len(p)
    /\ Modifier(p) <= Len(p)

C23_Holds(c) ==
    WellFormedTouch(c.p) =>
        /\ Decoded(c, [Touches |-> TouchListAt(c.p, 3, c.p[2]),
                       ChangedTouches |->
                           TouchListAt(c.p, Changed(c.p) + 1, c.p[Changed(c.p)]),
                       TargetTouches |->
                           TouchListAt(c.p, Target(c.p) + 1, c.p[Target(c.p)]),
                       Mod |-> c.p[Modifier(c.p)]])
        /\ Len(c.event.e.Touches) = c.p[2]
        /\ Len(c.event.e.ChangedTouches) = c.p[Changed(c.p)]
        /\ Len(c.event.e.TargetTouches) = c.p[Target(c.p)]
        /\ Len(c.p) - Len(c.rest) =
              1 + 3 + 12 * (Len(c.event.e.Touches) + Len(c.event.e.ChangedTouches)
                                + Len(c.event.e.TargetTouches)) + 1
        /\ c.rest = SubSeq(c.p, Modifier(c.p) + 1, Len(c.p))

\* C23: decodeEvent of a touch message that holds three lists, each a
\* count byte followed by count 12-byte touches, and a modifier byte
\* returns Touches, ChangedTouches, TargetTouches of the lengths the count
\* bytes give (the empty list for 0), every touch taken from the bytes of
\* its own list, Mod from the byte after the third list, and the decoder
\* has consumed 1 + 3 + 12 * (n1 + n2 + n3) + 1 bytes of the message.
C23_TouchLists == \A i \in 1..Len(results) : C23_Holds(results[i])

C23_Witness ==
    \E i \in 1..Len(results) :
        /\ results[i].p = <<evTouchMove>> \o TouchPayloadC
        /\ Len(results[i].event.e.Touches) = 2
        /\ results[i].event.e.TargetTouches = <<[Identifier |-> 2, X |-> 256, Y |-> 512]>>
        /\ results[i].event.e.ChangedTouches # results[i].event.e.TargetTouches

\* a touch message followed by two more bytes, which the decoder leaves
C23_WitnessTrailing ==
    \E i \in 1..Len(results) :
        /\ results[i].p = <<evTouchEnd>> \o TouchPayload \o <<1, 2>>
        /\ results[i].rest = <<1, 2>>

C24_Holds(t) ==
    /\ t.v = t.x
    /\ t.after = [bytes |-> <<>>, error |-> [kind |-> "nil"]]
    /\ t.kind = "byte" => t.written = <<t.x>>
    /\ t.kind = "uint32" => Len(t.written) = 4 /\ BE32(t.written, 1) = t.x
    /\ t.kind = "float64" => Len(t.written) = 8
    /\ t.kind = "string" =>
          /\ BE32(t.written, 1) = Len(t.x)
          /\ Len(t.written) = 4 + Len(t.x)
          /\ (\E i \in 1..Len(t.chars) : t.chars[i] >= 128) =>
                BE32(t.written, 1) > Len(t.chars)

\* C24: a byte, a uint32, a float64 or a string that is written to an
\* empty buffer with its add function and read with the matching read
\* function comes back unchanged, with no error set and no byte left in
\* the buffer; the length written in front of a string is its number of
\* bytes, which is more than its number of characters when a character
\* takes more than one byte.
C24_RoundTrip == \A i \in 1..Len(trips) : C24_Holds(trips[i])

C24_Witness ==
    /\ Len(trips) = 2
    /\ trips[1].kind = "string" /\ trips[1].chars = <<228, 97>>
    /\ trips[1].written = <<0, 0, 0, 3, 195, 164, 97>>
    /\ trips[1].v = <<195, 164, 97>>
    /\ trips[2].kind = "float64" /\ trips[2].x = 10 /\ trips[2].v = 10

\* the number of bytes that encode the value c.v returned by the read c
Size(c) ==
    CASE c.op = "readByte" -> 1
      [] c.op = "readUint32" -> 4
      [] c.op \in {"readUint64", "readFloat64"} -> 8
      [] c.op = "readString" -> 4 + Len(c.v)

\* the first bytes of the buffer are the encoding of the value returned
Encodes(c) ==
    CASE c.op = "readByte" -> c.before.bytes[1] = c.v
      [] c.op = "readUint32" -> BE32(c.before.bytes, 1) = c.v
      [] c.op = "readUint64" -> SubSeq(c.before.bytes, 1, 8) = c.v
      [] c.op = "readFloat64" -> Float64At(c.before.bytes, 1) = c.v
      [] c.op = "readString" ->
            /\ BE32(c.before.bytes, 1) = Len(c.v)
            /\ SubSeq(c.before.bytes, 5, 4 + Len(c.v)) = c.v

C25_Holds(c) ==
    c.after.error = [kind |-> "nil"] =>
        /\ Len(c.before.bytes) >= Size(c)
        /\ Encodes(c)
        /\ c.after.bytes = SubSeq(c.before.bytes, Size(c) + 1, Len(c.before.bytes))
        /\ c.before.error = [kind |-> "nil"]

\* C25: a read primitive that leaves no error in the buffer has taken
\* exactly the bytes of the value it returns from the front of the buffer
\* (1 for a byte, 4 for a uint32, 8 for a uint64 or float64, 4 + length for
\* a string), and the buffer afterwards holds the bytes that followed
\* them, unchanged and in order.
C25_ReadFrame == \A i \in 1..Len(readLog) : C25_Holds(readLog[i])

C25_Witness ==
    /\ Len(readLog) = 3
    /\ readLog[1].op = "readString" /\ readLog[1].v = <<97, 98>>
    /\ readLog[2].op = "readFloat64" /\ readLog[2].v = 10
    /\ readLog[3].op = "readByte" /\ readLog[3].v = 1
    /\ rbuf = [bytes |-> <<>>, error |-> [kind |-> "nil"]]

\* C26: no two distinct operations, draw commands and event kinds taken
\* together, stand for the same byte, and no operation stands for byte 0.
C26_UniqueTags ==
    \A i, j \in 1..Len(lookups) :
        /\ lookups[i].tag # 0
        /\ lookups[i].tag = lookups[j].tag => lookups[i].op = lookups[j].op

\* within the draw opcodes, and within the event types, no two operations
\* stand for the same byte, and none stands for byte 0
C26_UniqueWithinTable ==
    \A T \in {DrawOpcodes, EventTypes} :
        \A o, q \in T : o.tag \in 1..255 /\ (o.tag = q.tag => o.op = q.op)

\* a draw opcode and an event type that stand for the same byte
C26_SharedTag ==
    \E i, j \in 1..Len(lookups) :
        /\ lookups[i] \in DrawOpcodes
        /\ lookups[j] \in EventTypes
        /\ lookups[i].tag = lookups[j].tag

\* the RGBA channels of the pixel in column x, row y (counted from the
\* top-left corner of the bounds) of the source image m
SourcePixel(m, x, y) ==
    IF m.format = "RGBA"
    THEN SubSeq(m.Pix, y * m.Stride + 4 * x + 1, y * m.Stride + 4 * x + 4)
    ELSE << m.Pix[y * m.Stride + x + 1], m.Pix[y * m.Stride + x + 1],
            m.Pix[y * m.Stride + x + 1], 255 >>

\* the pixels of m in row-major order
RowMajor(m) ==
    [i \in 1 .. 4 * m.w * m.h |->
        SourcePixel(m, ((i - 1) \div 4) % m.w, ((i - 1) \div 4) \div m.w)[((i - 1) % 4) + 1]]

C27_Holds(c) ==
    /\ Len(c.cmd) = 13 + 4 * c.m.w * c.m.h
    /\ c.cmd[1] = 8
    /\ BE32(c.cmd, 2) = 0
    /\ BE32(c.cmd, 6) = c.m.w
    /\ BE32(c.cmd, 10) = c.m.h
    /\ SubSeq(c.cmd, 14, Len(c.cmd)) = RowMajor(c.m)

\* C27: the command that CreateImageData appends for a source image of
\* width w and height h is the createImageData opcode, the 4-byte ID, w and
\* h as 4 bytes each, and then exactly 4 * w * h bytes: the red, green,
\* blue and alpha values of the source pixels in row-major order, whatever
\* the pixel format and the origin of the bounds of the source image.
C27_PixelsRowMajor == \A i \in 1..Len(created) : C27_Holds(created[i])

\* the statement holds for the images whose bounds start at (0, 0) and
\* whose rows follow each other in Pix without a gap
C27_TightAtOrigin ==
    \A i \in 1..Len(created) :
        (/\ created[i].m.min = <<0, 0>>
         /\ created[i].m.Stride = created[i].m.w * BytesPerPixel(created[i].m.format)
         /\ Len(created[i].m.Pix) = created[i].m.Stride * created[i].m.h)
            => C27_Holds(created[i])

\* a Gray image with bounds that start at (1, 0) whose pixel is sent as
\* four zero bytes
C27_MovedBounds ==
    \E i \in 1..Len(created) :
        /\ created[i].m = GrayImage([min |-> <<1, 0>>, w |-> 1, h |-> 1])
        /\ SubSeq(created[i].cmd, 14, 17) = <<0, 0, 0, 0>>

\* an RGBA sub-image of one column, sent with the bytes of both columns
C27_SubImageStride ==
    \E i \in 1..Len(created) :
        /\ created[i].m = SubImage(RGBAImage(Whole), [min |-> <<0, 0>>, w |-> 1, h |-> 2])
        /\ Len(created[i].cmd) = 13 + 16

CreateOps ==
    { "CreateImageData", "GetImageData", "CreateLinearGradient",
      "CreateRadialGradient", "CreatePattern" }

\* the opcode of the command that a creating call appends
CreateOpcode(op) ==
    CASE op = "CreateImageData" -> 8
      [] op = "GetImageData" -> 68
      [] op = "CreateLinearGradient" -> 9
      [] op = "CreateRadialGradient" -> 11
      [] op = "CreatePattern" -> 10

\* what the last call appended to the buffer of Context c
Appended(c) == SubSeq(cbuf[c], Len(lastOwn.before[c]) + 1, Len(cbuf[c]))

\* the last call left what the buffer of c held, and every other buffer
OnlyAppendedTo(c) ==
    /\ SubSeq(cbuf[c], 1, Len(lastOwn.before[c])) = lastOwn.before[c]
    /\ \A d \in Contexts \ {c} : cbuf[d] = lastOwn.before[d]

\* C28: a creating call that has returned has appended one create command
\* to the buffer of the Context it was called on, and its handle is not
\* released, has the ID written in that command and has that Context as
\* owner; the owner of a handle never changes, and a call made through a
\* handle appends to the buffer of the Context that created the handle
\* and to no other buffer.
C28_HandleOwner ==
    /\ \A i \in 1..Len(handles) : handles[i].h.ctx = handles[i].on
    /\ (lastOwn.op \in CreateOps /\ lastOwn.fault = "none") =>
          /\ lastOwn.h = Len(handles)
          /\ ~handles[lastOwn.h].h.released
          /\ handles[lastOwn.h].on = lastOwn.ctx
          /\ OnlyAppendedTo(lastOwn.ctx)
          /\ Len(Appended(lastOwn.ctx)) >= 5
          /\ Appended(lastOwn.ctx)[1] = CreateOpcode(lastOwn.op)
          /\ BE32(Appended(lastOwn.ctx), 2) = handles[lastOwn.h].h.id
    /\ lastOwn.op \in {"Release", "AddColorStop", "AddColorStopString"} =>
          /\ OnlyAppendedTo(handles[lastOwn.h].on)
          /\ Appended(handles[lastOwn.h].on) # <<>> =>
                BE32(Appended(handles[lastOwn.h].on), 2) = handles[lastOwn.h].h.id

\* a gradient of the second Context receives a colour stop after the first
\* Context has created a gradient of its own with the same ID
C28_Witness ==
    /\ Len(handles) = 2
    /\ handles[1].on = 1 /\ handles[2].on = 2
    /\ handles[1].h.id = handles[2].h.id
    /\ lastOwn.op = "AddColorStop" /\ lastOwn.h = 2
    /\ Len(cbuf[2]) > Len(lastOwn.before[2])
    /\ cbuf[1] # <<>>

\* C29: a step of readMessages that reads a message that is not binary
\* leaves the loop at its next read and produces no event: nothing is
\* decoded, nothing is held for or handed to the run function, the
\* WaitGroup is untouched; an event is decoded only in a step that reads a
\* binary message; and readMessages ends only from its read, with the
\* connection closed, that is when conn.ReadMessage returns an error.
C29_OnlyBinaryMessages ==
    [][ /\ (reads' # reads /\ messageType' # BinaryMessage) =>
              /\ rPc' = "read"
              /\ decoded' = decoded
              /\ decodeFaults' = decodeFaults
              /\ evMsg' = evMsg
              /\ received' = received
              /\ wg' = wg
        /\ decoded' # decoded => (reads' # reads /\ messageType' = BinaryMessage)
        /\ (rPc # "done" /\ rPc' = "done") =>
              (rPc = "read" /\ conn = "closed" /\ reads' = reads) ]_vars

\* a text message was read after a binary message whose event was handed
\* over, and the loop is at its next read
C29_Witness ==
    /\ messageType = TextMessage
    /\ reads = 2
    /\ Len(decoded) = 1
    /\ Len(received) = 1
    /\ rPc = "read"
    /\ conn = "open"

\* C30: a run function that has reached the send of Flush eventually
\* leaves Flush, unless the process has ended with a panic.
C30_FlushReturns ==
    (runPc = "flush") ~> (runPc = "idle" \/ crashed # NoFault)

\* the run function is at the send of Flush after writeMessages has ended
C30_Blocked == runPc = "flush" /\ wPc = "done" /\ crashed = NoFault

\* a run function at the send of Flush after writeMessages has ended stays
\* there in every step
C30_StaysBlocked == [][(runPc = "flush" /\ wPc = "done") => runPc' = "flush"]_vars

\* C31: once the connection is closed, drawHandler.ServeHTTP eventually
\* returns (its deferred closes have run), unless the process has ended with
\* a panic; this holds whatever the order is in which readMessages,
\* writeMessages and the run function finish.
C31_ServeHTTPReturns ==
    (conn = "closed") ~> (hPc = "done" \/ crashed # NoFault)

\* ServeHTTP is at events <- CloseEvent{} after the run function has returned
C31_SendCloseStuck == hPc = "sendClose" /\ runPc = "done" /\ crashed = NoFault

\* ServeHTTP at events <- CloseEvent{} stays there in every step once the run
\* function has returned
C31_StaysStuck ==
    [][(hPc = "sendClose" /\ runPc = "done") => hPc' = "sendClose"]_vars

\* the connection is closed, readMessages has ended and the other three
\* goroutines wait for each other: ServeHTTP in the first wg.Wait,
\* writeMessages in the receive from draws, the run function in the receive
\* from events
C31_AllWaiting ==
    /\ conn = "closed"
    /\ rPc = "done"
    /\ hPc = "wait1"
    /\ wg = 1
    /\ wPc = "recv"
    /\ runPc = "recv"
    /\ crashed = NoFault

\* C32: the WaitGroup counter of drawHandler.ServeHTTP never becomes
\* negative: no wg.Done runs while the counter is 0, so the process never
\* ends with the panic "sync: negative WaitGroup counter".
C32_CounterNotNegative == wg >= 0 /\ crashed # NegativeCounter

Ended(pc) == IF pc = "done" THEN 1 ELSE 0

\* until ServeHTTP has run wg.Add(1), the counter is 2 minus the number of
\* goroutines that have ended: three goroutines are counted as two
C32_TwoForThree ==
    hPc \in {"wait1", "add1"} => wg = 2 - (Ended(rPc) + Ended(wPc) + Ended(runPc))

\* all three goroutines have called wg.Done before ServeHTTP reached wg.Add(1)
C32_ThreeDones ==
    /\ rPc = "done"
    /\ wPc = "done"
    /\ runPc = "done"
    /\ hPc \in {"wait1", "add1"}
    /\ wg = -1

\* C33: the events and draws channels are closed only after readMessages,
\* writeMessages and the run function have all returned, and the process
\* never ends with the panic "send on closed channel": neither
\* events <- event in readMessages nor ctx.draws <- ctx.buf.bytes in Flush
\* meets a closed channel.
C33_ClosedAfterAllReturned ==
    /\ (drawsClosed \/ eventsClosed \/ hPc \in {"closeDraws", "closeEvents", "done"})
          => (rPc = "done" /\ wPc = "done" /\ runPc = "done")
    /\ crashed # SendOnClosed

\* ServeHTTP has returned: both channels are closed, after a session in which
\* an event went to the run function and a message to the connection
C33_Witness ==
    /\ hPc = "done"
    /\ drawsClosed
    /\ eventsClosed
    /\ crashed = NoFault
    /\ written # <<>>
    /\ Len(received) >= 2

\* C34: the bytes of a message that Flush handed to writeMessages are not
\* changed by drawing calls made after that Flush returned: while
\* writeMessages holds the message its contents are the ones it had at the
\* handoff, and conn.WriteMessage finds exactly those.
C34_MessageBytesStable ==
    /\ mPc = "write" => Contents(heap, message) = handed[Len(handed)]
    /\ \A i \in DOMAIN wrote : wrote[i] = handed[i]

\* with the reset that makes a new slice the message keeps its bytes
C34_StableWithMake == resetDef = ResetMake => C34_MessageBytesStable

\* with the reset that makes a new slice, a drawing call was made after Flush
\* returned while writeMessages still held a message that is not empty
C34_DrawnAfterFlushWithMake ==
    /\ resetDef = ResetMake
    /\ mPc = "write"
    /\ fPc = "idle"
    /\ message.len > 0
    /\ bytes.len > 0

\* the reset buffer and the message held by writeMessages are the same array
C34_SharedArray ==
    /\ mPc = "write"
    /\ fPc = "idle"
    /\ message.arr # 0
    /\ bytes.arr = message.arr

\* the array is shared only with the reset that truncates
C34_SharedOnlyWithTruncate == C34_SharedArray => resetDef = ResetTruncate

\* C35: decodeEvent on an empty payload returns the nil event and the
\* data-too-short error; the buffer's error goes before what the dispatch
\* on the event type produced: a data-too-short error comes with the nil
\* event, and an unknown-event-type error is returned only for a type byte
\* that was really read from the payload.
C35_ShortReadFirst ==
    \A i \in DOMAIN results :
        /\ results[i].p = <<>>
              => /\ results[i].event = [type |-> "nil"]
                 /\ results[i].err = [kind |-> "data too short"]
        /\ results[i].err.kind = "data too short"
              => results[i].event = [type |-> "nil"]
        /\ results[i].err.kind = "unknown event type"
              => /\ results[i].p # <<>>
                 /\ results[i].err.unknownType = results[i].p[1]

\* decodeEvent was called on the empty payload
C35_Witness ==
    \E i \in DOMAIN results :
        /\ results[i].p = <<>>
        /\ results[i].err.kind = "data too short"
        /\ results[i].rest = <<>>

\* the last n bytes of p
Last(p, n) == SubSeq(p, Len(p) - n + 1, Len(p))

C36_Holds(c) ==
    \A q \in WellFormedInputs, t \in Tails :
        c.p = q \o t
            => /\ c.err = NoError
               /\ c.event = decodeEvent(q).event
               /\ c.event # NilEvent
               /\ Len(c.rest) >= Len(t)
               /\ Last(c.rest, Len(t)) = t

\* C36: decodeEvent ignores the bytes that follow a complete event: a
\* well-formed message q followed by any bytes t decodes without error to
\* the event that q alone decodes to, and t is left unread in the buffer.
C36_TrailingBytesIgnored == \A i \in 1..Len(results) : C36_Holds(results[i])

\* a keyboard message followed by five more bytes was decoded
C36_Witness ==
    \E i \in DOMAIN results :
        /\ results[i].p = <<evKeyDown>> \o KeyboardPayloadC \o <<255, 0, 0, 0, 1>>
        /\ results[i].err = NoError
        /\ results[i].event.type = "KeyDownEvent"
        /\ results[i].rest = <<255, 0, 0, 0, 1>>

\* C37: a CreatePattern call whose source ImageData was released panics
\* and consumes no pattern ID: the counter, the patterns and the buffer are
\* as before the call.  A CreatePattern call that succeeds gets as ID the
\* number of CreatePattern calls that succeeded before it, so calls that
\* faulted in between make no difference to it.
C37_FaultConsumesNoID ==
    [][(calls' = calls + 1 /\ last'.op = "CreatePattern")
        => IF last'.wasReleased
           THEN /\ fault' = ImageDataFault
                /\ patternIDs' = patternIDs
                /\ pats' = pats
                /\ buf' = buf
           ELSE /\ fault' = NoFault
                /\ patternIDs' = patternIDs + 1
                /\ Len(pats') = Len(pats) + 1
                /\ pats'[Len(pats')].id = Len(pats)
                /\ SubSeq(buf', Len(buf) + 1, Len(buf) + 5)
                      = <<10, 0, 0, 0, Len(pats)>>]_vars

\* a CreatePattern call has just faulted on a released ImageData, after an
\* earlier CreatePattern call that got ID 0; the counter still stands at 1
C37_Witness ==
    /\ last.op = "CreatePattern"
    /\ last.wasReleased
    /\ fault = ImageDataFault
    /\ Len(pats) = 1
    /\ pats[1].id = 0
    /\ patternIDs = 1
    /\ buf = last.bufBefore

====
